---- MODULE Spec2Model ----
(***************************************************************************)
(* csv-diff-viewer, native diff core (src-wasm): the primary-key diff      *)
(* (one-shot, parallel, chunked session), the content-match diff and the   *)
(* boundary memory manager, as state machines over parsed datasets.        *)
(*                                                                         *)
(* A string is a sequence of one-character strings; a record (row) is a    *)
(* sequence of cells; row and column indices are the Rust indices plus 1.  *)
(***************************************************************************)
EXTENDS Integers, Sequences, FiniteSets, TLC

VARIABLES
    entry,                    \* the entry point the caller invokes
    pc,                       \* position inside the running entry point
    source_headers, source_rows, target_headers, target_rows,
    key_columns, excluded_columns,
    case_sensitive, ignore_whitespace, ignore_empty_vs_null,
    source_map, target_map,   \* key -> row index
    result,                   \* the DiffResult being built / returned
    error,                    \* the Err(..) returned, or NoError
    chunk,                    \* the caller's side of a chunked session
    unmatched_target_indices, \* content match: target rows not yet consumed
    target_fingerprint_lookup,\* content match: fingerprint -> target indices
    inverted_index,           \* content match: (column, value) -> target indices
    row_counter,              \* content match: the source row processed next
    matches,                  \* content match: what happened to each source row
    heap,                     \* live allocations: pointer -> capacity
    LAST_BINARY_RESULT_LENGTH,
    LAST_BINARY_RESULT_CAPACITY,
    caller,                   \* what the caller holds and has done
    leases,                   \* every buffer handed out, with its releases
    encoder,                  \* BinaryEncoder: its buffer
    decoder,                  \* BinaryDecoder: its buffer and position
    decoded,                  \* how the last encoder / decoder call ended
    csv_content,              \* the text handed to the parser, record by record
    has_headers,              \* the parser's has_headers argument
    parsed,                   \* what the parser returned
    tasks,                    \* the tasks of a parallel section and their outputs
    scan                      \* the candidate gathering of one source row

pkvars == <<source_map, target_map, chunk>>

cmvars == <<unmatched_target_indices, target_fingerprint_lookup, inverted_index,
            row_counter, matches>>

memvars == <<heap, LAST_BINARY_RESULT_LENGTH, LAST_BINARY_RESULT_CAPACITY,
             caller, leases>>

inputs == <<entry, source_headers, source_rows, target_headers, target_rows,
            key_columns, excluded_columns, case_sensitive, ignore_whitespace,
            ignore_empty_vs_null>>

codecvars == <<encoder, decoder, decoded>>

parsevars == <<csv_content, has_headers, parsed>>

taskvars == <<tasks>>

scanvars == <<scan>>

vars == <<inputs, pc, result, error, pkvars, cmvars, memvars, codecvars, parsevars,
          taskvars, scanvars>>

-----------------------------------------------------------------------------
(* Bounds of the model.                                                    *)

MaxSourceRows == 2
MaxTargetRows == 2

-----------------------------------------------------------------------------
(* Strings.                                                                *)

Range(f) == {f[x] : x \in DOMAIN f}

SeqsUpTo(S, n) == UNION {[1..k -> S] : k \in 0..n}

RECURSIVE SeqSum(_)
SeqSum(s) == IF s = <<>> THEN 0 ELSE Head(s) + SeqSum(Tail(s))

\* All orders in which the elements of a finite set can be iterated.
Orderings(S) ==
    {f \in [1..Cardinality(S) -> S] : \A i, j \in DOMAIN f : i # j => f[i] # f[j]}

\* char::to_lowercase on the characters of the model's alphabet.
ToLowerChar(c) ==
    CASE c = "A" -> "a"
      [] c = "B" -> "b"
      [] c = "X" -> "x"
      [] c = "Y" -> "y"
      [] c = "N" -> "n"
      [] c = "U" -> "u"
      [] c = "L" -> "l"
      [] OTHER -> c

to_lowercase(s) == IF s = <<>> THEN <<>> ELSE [i \in 1..Len(s) |-> ToLowerChar(s[i])]

IsWhitespace(c) == c = " "

RECURSIVE trim_start(_)
trim_start(s) ==
    IF s # <<>> /\ IsWhitespace(Head(s)) THEN trim_start(Tail(s)) ELSE s

RECURSIVE trim_end(_)
trim_end(s) ==
    IF s # <<>> /\ IsWhitespace(s[Len(s)])
    THEN trim_end(SubSeq(s, 1, Len(s) - 1))
    ELSE s

trim(s) == trim_end(trim_start(s))

\* [String].join(sep)
RECURSIVE join(_, _)
join(parts, sep) ==
    IF parts = <<>> THEN <<>>
    ELSE IF Len(parts) = 1 THEN parts[1]
    ELSE parts[1] \o sep \o join(Tail(parts), sep)

NULL_TOKEN == <<"n", "u", "l", "l">>
EMPTY_OR_NULL == <<"E", "M", "P", "T", "Y", "_", "O", "R", "_", "N", "U", "L", "L">>

-----------------------------------------------------------------------------
(* utils.rs                                                                *)

is_empty_or_null(value) ==
    LET v == trim(value) IN v = <<>> \/ to_lowercase(v) = NULL_TOKEN

\* Variant of normalize_value_cow that never lowercases.
normalize_value_cow_keep_case(value, cs, iw, ien) ==
    LET trimmed == IF iw THEN trim(value) ELSE value IN
    IF ien /\ is_empty_or_null(trimmed) THEN EMPTY_OR_NULL
    ELSE trimmed

normalize_value_cow(value, cs, iw, ien) ==
    LET trimmed == IF iw THEN trim(value) ELSE value IN
    IF ien /\ is_empty_or_null(trimmed) THEN EMPTY_OR_NULL
    ELSE IF cs THEN trimmed
    ELSE to_lowercase(trimmed)

normalize_value_with_empty_vs_null(value, cs, iw, ien) ==
    normalize_value_cow(value, cs, iw, ien)

\* The header map a parser builds: header_map.insert(h, i) for i ascending,
\* so that a repeated name keeps its last position.
HeaderMap(headers) ==
    [h \in Range(headers) |->
        CHOOSE i \in DOMAIN headers :
            headers[i] = h /\ \A j \in DOMAIN headers : headers[j] = h => j <= i]

\* row.get(idx).unwrap_or("")
Cell(row, idx) == IF idx \in DOMAIN row THEN row[idx] ELSE <<>>

get_row_key(row, header_map, keys) ==
    join([k \in DOMAIN keys |->
            IF keys[k] \in DOMAIN header_map
            THEN Cell(row, header_map[keys[k]])
            ELSE <<>>],
         <<"|">>)

record_to_hashmap(row, headers) ==
    [h \in Range(headers) |-> Cell(row, HeaderMap(headers)[h])]

-----------------------------------------------------------------------------
(* Results and errors.                                                     *)

EmptyResult ==
    [added |-> <<>>, removed |-> <<>>, modified |-> <<>>, unchanged |-> <<>>,
     mode |-> "none"]

NoError == [kind |-> "none"]

KeyColumnNotFound(column, side) ==
    [kind |-> "key_column_not_found", column |-> column, side |-> side]

DuplicatePrimaryKey(key, side) ==
    [kind |-> "duplicate_primary_key", key |-> key, side |-> side]

EmptyMap == <<>>

Counts(r) ==
    [added |-> Len(r.added), removed |-> Len(r.removed),
     modified |-> Len(r.modified), unchanged |-> Len(r.unchanged)]

ZeroCounts == [added |-> 0, removed |-> 0, modified |-> 0, unchanged |-> 0]

AddCounts(a, b) ==
    [added |-> a.added + b.added, removed |-> a.removed + b.removed,
     modified |-> a.modified + b.modified, unchanged |-> a.unchanged + b.unchanged]

-----------------------------------------------------------------------------
(* core.rs, diff_csv_primary_key_internal                                  *)

\* Variant of the key-column check that walks the source headers for every
\* key column before it looks at the target headers.
validate_key_columns_by_side(keys, shm, thm) ==
    LET ms == {k \in DOMAIN keys : keys[k] \notin DOMAIN shm}
        mt == {k \in DOMAIN keys : keys[k] \notin DOMAIN thm} IN
    IF ms # {}
    THEN KeyColumnNotFound(keys[CHOOSE m \in ms : \A n \in ms : m <= n], "source")
    ELSE IF mt # {}
    THEN KeyColumnNotFound(keys[CHOOSE m \in mt : \A n \in mt : m <= n], "target")
    ELSE NoError

\* The validation loop: the keys in order, source before target for each.
validate_key_columns(keys, shm, thm) ==
    LET missing == {k \in DOMAIN keys :
                        keys[k] \notin DOMAIN shm \/ keys[k] \notin DOMAIN thm} IN
    IF missing = {} THEN NoError
    ELSE LET k == CHOOSE m \in missing : \A n \in missing : m <= n IN
         IF keys[k] \notin DOMAIN shm
         THEN KeyColumnNotFound(keys[k], "source")
         ELSE KeyColumnNotFound(keys[k], "target")

\* The map-building loop from row i on: stops at the first key already in
\* the map; [ok, map, key] with the map as it is when the loop ends.
RECURSIVE build_key_map_from(_, _, _, _, _)
build_key_map_from(rows, hm, keys, i, map) ==
    IF i > Len(rows) THEN [ok |-> TRUE, map |-> map, key |-> <<>>]
    ELSE LET key == get_row_key(rows[i], hm, keys) IN
         IF key \in DOMAIN map
         THEN [ok |-> FALSE, map |-> map, key |-> key]
         ELSE build_key_map_from(rows, hm, keys, i + 1, (key :> i) @@ map)

\* Variant of the key map that inserts every row, a later row replacing an
\* earlier one with the same key.
build_key_map_overwriting(rows, hm, keys) ==
    LET ks == {get_row_key(rows[i], hm, keys) : i \in DOMAIN rows} IN
    [ok |-> TRUE,
     map |-> [k \in ks |-> CHOOSE i \in DOMAIN rows :
                /\ get_row_key(rows[i], hm, keys) = k
                /\ \A j \in DOMAIN rows : get_row_key(rows[j], hm, keys) = k => j <= i],
     key |-> <<>>]

build_key_map(rows, hm, keys) == build_key_map_from(rows, hm, keys, 1, EmptyMap)

\* The per-column comparison of a joined pair of rows.
column_differences(srow, trow, sh, shm, thm, excl, cs, iw, ien) ==
    LET differs(h) ==
            /\ h \notin excl
            /\ h \in DOMAIN thm
            /\ normalize_value_with_empty_vs_null(Cell(srow, shm[h]), cs, iw, ien)
                 # normalize_value_with_empty_vs_null(Cell(trow, thm[h]), cs, iw, ien)
        cols == SelectSeq(sh, differs) IN
    [c \in DOMAIN cols |->
        [column |-> cols[c],
         old_value |-> Cell(srow, shm[cols[c]]),
         new_value |-> Cell(trow, thm[cols[c]])]]

\* Variant of the removed pass that reports every source key.
find_removed_unfiltered(smap, tmap, order, srows, sh) ==
    [r \in DOMAIN order |->
        [key |-> order[r], source_row |-> record_to_hashmap(srows[smap[order[r]]], sh)]]

\* "Find removed": the source map in its iteration order.
find_removed(smap, tmap, order, srows, sh) ==
    LET gone == SelectSeq(order, LAMBDA k : k \notin DOMAIN tmap) IN
    [r \in DOMAIN gone |->
        [key |-> gone[r], source_row |-> record_to_hashmap(srows[smap[gone[r]]], sh)]]

\* Variant of the target pass that never looks the key up in the source map.
classify_target_as_added(key, smap, tmap, srows, trows, sh, th, shm, thm, excl, cs, iw, ien) ==
    [bucket |-> "added",
     row |-> [key |-> key, target_row |-> record_to_hashmap(trows[tmap[key]], th)]]

\* "Find added and modified": one target key.
classify_target(key, smap, tmap, srows, trows, sh, th, shm, thm, excl, cs, iw, ien) ==
    LET target_row == trows[tmap[key]] IN
    IF key \notin DOMAIN smap
    THEN [bucket |-> "added",
          row |-> [key |-> key, target_row |-> record_to_hashmap(target_row, th)]]
    ELSE LET source_row == srows[smap[key]]
             differences == column_differences(source_row, target_row, sh, shm, thm,
                                               excl, cs, iw, ien) IN
         IF differences # <<>>
         THEN [bucket |-> "modified",
               row |-> [key |-> key,
                        source_row |-> record_to_hashmap(source_row, sh),
                        target_row |-> record_to_hashmap(target_row, th),
                        differences |-> differences]]
         ELSE [bucket |-> "unchanged",
               row |-> [key |-> key, row |-> record_to_hashmap(source_row, sh)]]

\* The rows of one bucket, in the order the classified rows were pushed.
Bucket(classified, name) ==
    LET mine == SelectSeq(classified, LAMBDA c : c.bucket = name) IN
    [i \in DOMAIN mine |-> mine[i].row]

compare_rows(smap, tmap, sorder, torder, srows, trows, sh, th, excl, cs, iw, ien) ==
    LET shm == HeaderMap(sh)
        thm == HeaderMap(th)
        classified == [i \in DOMAIN torder |->
            classify_target(torder[i], smap, tmap, srows, trows, sh, th, shm, thm,
                            excl, cs, iw, ien)] IN
    [added |-> Bucket(classified, "added"),
     removed |-> find_removed(smap, tmap, sorder, srows, sh),
     modified |-> Bucket(classified, "modified"),
     unchanged |-> Bucket(classified, "unchanged"),
     mode |-> "primary-key"]

-----------------------------------------------------------------------------
(* parallel.rs, diff_csv_parallel_internal                                 *)

\* rows.iter().enumerate().map(|(i, row)| (key, i)).collect(): every pair is
\* inserted, so that a repeated key keeps its last row.
collect_key_map(rows, hm, keys) ==
    LET ks == {get_row_key(rows[i], hm, keys) : i \in DOMAIN rows} IN
    [k \in ks |->
        CHOOSE i \in DOMAIN rows :
            /\ get_row_key(rows[i], hm, keys) = k
            /\ \A j \in DOMAIN rows : get_row_key(rows[j], hm, keys) = k => j <= i]

\* "Check for duplicate keys": the keys of the collected map, in iteration
\* order, inserted into a set; the first key already in the set, if any.
first_repeated_key(order) ==
    LET repeated == {j \in DOMAIN order : \E i \in DOMAIN order : i < j /\ order[i] = order[j]} IN
    IF repeated = {} THEN [found |-> FALSE, key |-> <<>>]
    ELSE [found |-> TRUE,
          key |-> order[CHOOSE j \in repeated : \A n \in repeated : j <= n]]

parallel_find_removed(smap, tmap, order, srows, sh) ==
    LET gone == SelectSeq(order, LAMBDA k : k \notin DOMAIN tmap) IN
    [r \in DOMAIN gone |->
        [key |-> gone[r], source_row |-> record_to_hashmap(srows[smap[gone[r]]], sh)]]

\* One task of parallel_compare_rows: (added, modified, unchanged) options.
parallel_compare_row(key, smap, tmap, srows, trows, sh, th, shm, thm, excl, cs, iw, ien) ==
    LET target_row == trows[tmap[key]] IN
    IF key \notin DOMAIN smap
    THEN [bucket |-> "added",
          row |-> [key |-> key, target_row |-> record_to_hashmap(target_row, th)]]
    ELSE LET source_row == srows[smap[key]]
             differs(h) ==
                /\ h \notin excl
                /\ h \in DOMAIN thm
                /\ normalize_value_with_empty_vs_null(Cell(source_row, shm[h]), cs, iw, ien)
                     # normalize_value_with_empty_vs_null(Cell(target_row, thm[h]), cs, iw, ien)
             cols == SelectSeq(sh, differs)
             differences == [c \in DOMAIN cols |->
                [column |-> cols[c],
                 old_value |-> Cell(source_row, shm[cols[c]]),
                 new_value |-> Cell(target_row, thm[cols[c]])]] IN
         IF differences = <<>>
         THEN [bucket |-> "unchanged",
               row |-> [key |-> key, row |-> record_to_hashmap(target_row, th)]]
         ELSE [bucket |-> "modified",
               row |-> [key |-> key,
                        source_row |-> record_to_hashmap(source_row, sh),
                        target_row |-> record_to_hashmap(target_row, th),
                        differences |-> differences]]

parallel_compare_rows(smap, tmap, torder, srows, trows, sh, th, excl, cs, iw, ien) ==
    LET shm == HeaderMap(sh)
        thm == HeaderMap(th)
        results == [i \in DOMAIN torder |->
            parallel_compare_row(torder[i], smap, tmap, srows, trows, sh, th, shm, thm,
                                 excl, cs, iw, ien)] IN
    [added |-> Bucket(results, "added"),
     modified |-> Bucket(results, "modified"),
     unchanged |-> Bucket(results, "unchanged")]

-----------------------------------------------------------------------------
(* The inputs of a primary-key run: parsed datasets (the reader trims every *)
(* cell and rejects records of unequal length), key columns and options.   *)

IdValues == {<<"a">>, <<"A">>, <<"b">>}
ValueValues == {<<"x">>, <<"X">>}

ColumnValues(h) == IF h = "id" THEN IdValues ELSE ValueValues

RowsOf(headers) ==
    {r \in [DOMAIN headers -> IdValues \cup ValueValues] :
        \A c \in DOMAIN headers : r[c] \in ColumnValues(headers[c])}

\* Header and key-column combinations: a single and a composite key over
\* equal headers, and the ways a key column can be missing.
PKConfigs ==
    { [sh |-> <<"id", "v">>, th |-> <<"id", "v">>, keys |-> <<"id">>],
      [sh |-> <<"id", "v">>, th |-> <<"v", "id">>, keys |-> <<"id", "v">>],
      [sh |-> <<"id">>,      th |-> <<"v">>,       keys |-> <<"id", "v">>],
      [sh |-> <<"id">>,      th |-> <<"v">>,       keys |-> <<"v", "id">>],
      [sh |-> <<"v">>,       th |-> <<"id", "v">>, keys |-> <<"id">>],
      [sh |-> <<"id", "v">>, th |-> <<"v">>,       keys |-> <<"id">>] }

EntryPoints == {"one_shot", "parallel", "session"}

\* What the caller of a session has done so far: the number of diff_chunk
\* calls, the end of the last requested range, whether every call started at
\* or after the end of the one before, the target rows (Rust indices) inside
\* the requested ranges, the number of calls whose range reached the target
\* row count, the bucket sizes summed over the returned chunks, the arguments
\* of the last call and whether the call before it had the same arguments.
NoChunk ==
    [calls |-> 0, prev_end |-> 0, ordered |-> TRUE, covered |-> {},
     reached |-> 0, sums |-> ZeroCounts, start |-> 0, size |-> 0, repeated |-> FALSE]

\* The content-match state and the memory manager before they are used.
CMIdle ==
    /\ unmatched_target_indices = {}
    /\ target_fingerprint_lookup = EmptyMap
    /\ inverted_index = EmptyMap
    /\ row_counter = 1
    /\ matches = <<>>

\* The caller of the binary entry points: where it is in the lease protocol
\* (idle, has_ptr, has_len, has_meta), the pointer it was handed and the
\* metadata it has read, whether it has kept to the protocol so far, how its
\* last binary-producing call ended and what the registers held before it,
\* and its last dealloc call with the allocations that call released.
NULL == 0

NoCaller ==
    [phase |-> "idle", ptr |-> NULL, len |-> 0, cap |-> 0, disciplined |-> TRUE,
     last_call |-> "none", before |-> <<0, 0>>,
     last_dealloc |-> [ptr |-> NULL, size |-> 0, released |-> {}, called |-> FALSE]]

MemIdle ==
    /\ heap = EmptyMap
    /\ LAST_BINARY_RESULT_LENGTH = 0
    /\ LAST_BINARY_RESULT_CAPACITY = 0
    /\ caller = NoCaller
    /\ leases = <<>>

\* A parallel section before it starts: the keys handed to the removed scan
\* and to the comparison in the maps' iteration order, one output slot per
\* key, and the order in which the tasks have run.
NoTasks ==
    [source_keys |-> <<>>, removed |-> <<>>, target_keys |-> <<>>, results |-> <<>>,
     schedule |-> <<>>]

TasksIdle == tasks = NoTasks

\* No candidate gathering under way.
NoScan ==
    [state |-> "idle", tokens |-> <<>>, next |-> 1, budget |-> 0,
     candidate_scores |-> <<>>, scanned |-> <<>>]

ScanIdle == scan = NoScan

\* The codec before an encoder or a decoder exists, and the parser before
\* it is called.
NoDecoded == [op |-> "none", outcome |-> "none"]

CodecIdle ==
    /\ encoder = [buffer |-> <<>>]
    /\ decoder = [buffer |-> <<>>, position |-> 0, whole |-> FALSE, of |-> EmptyResult]
    /\ decoded = NoDecoded

NotParsed == [outcome |-> "none"]

ParseIdle ==
    /\ csv_content = <<>>
    /\ has_headers = FALSE
    /\ parsed = NotParsed

PKInputs(entries, configs) ==
    /\ entry \in entries
    /\ \E cfg \in configs :
        /\ source_headers = cfg.sh
        /\ target_headers = cfg.th
        /\ key_columns = cfg.keys
        /\ source_rows \in SeqsUpTo(RowsOf(cfg.sh), MaxSourceRows)
        /\ target_rows \in SeqsUpTo(RowsOf(cfg.th), MaxTargetRows)
    /\ excluded_columns = {}
    /\ case_sensitive \in BOOLEAN
    /\ ignore_whitespace = FALSE
    /\ ignore_empty_vs_null = FALSE

InitPK ==
    /\ PKInputs(EntryPoints, PKConfigs)
    /\ pc = "parsed"
    /\ source_map = EmptyMap
    /\ target_map = EmptyMap
    /\ result = EmptyResult
    /\ error = NoError
    /\ chunk = NoChunk
    /\ CMIdle
    /\ MemIdle
    /\ TasksIdle
    /\ ScanIdle
    /\ CodecIdle
    /\ ParseIdle

-----------------------------------------------------------------------------
(* diff_csv_primary_key_internal, phase by phase.                          *)

ValidateKeys ==
    /\ entry = "one_shot"
    /\ pc = "parsed"
    /\ LET e == validate_key_columns(key_columns, HeaderMap(source_headers),
                                     HeaderMap(target_headers)) IN
        /\ error' = e
        /\ pc' = IF e = NoError THEN "validated" ELSE "error"
    /\ UNCHANGED <<scanvars, taskvars, codecvars, parsevars, cmvars, memvars, inputs, source_map, target_map, result, chunk>>

BuildSourceMap ==
    /\ entry = "one_shot"
    /\ pc = "validated"
    /\ LET b == build_key_map(source_rows, HeaderMap(source_headers), key_columns) IN
        /\ source_map' = b.map
        /\ error' = IF b.ok THEN NoError ELSE DuplicatePrimaryKey(b.key, "source")
        /\ pc' = IF b.ok THEN "source_mapped" ELSE "error"
    /\ UNCHANGED <<scanvars, taskvars, codecvars, parsevars, cmvars, memvars, inputs, target_map, result, chunk>>

BuildTargetMap ==
    /\ entry = "one_shot"
    /\ pc = "source_mapped"
    /\ LET b == build_key_map(target_rows, HeaderMap(target_headers), key_columns) IN
        /\ target_map' = b.map
        /\ error' = IF b.ok THEN NoError ELSE DuplicatePrimaryKey(b.key, "target")
        /\ pc' = IF b.ok THEN "target_mapped" ELSE "error"
    /\ UNCHANGED <<scanvars, taskvars, codecvars, parsevars, cmvars, memvars, inputs, source_map, result, chunk>>

CompareRows ==
    /\ entry = "one_shot"
    /\ pc = "target_mapped"
    /\ \E sorder \in Orderings(DOMAIN source_map), torder \in Orderings(DOMAIN target_map) :
        result' = compare_rows(source_map, target_map, sorder, torder,
                               source_rows, target_rows, source_headers, target_headers,
                               excluded_columns, case_sensitive, ignore_whitespace,
                               ignore_empty_vs_null)
    /\ pc' = "done"
    /\ UNCHANGED <<scanvars, taskvars, codecvars, parsevars, cmvars, memvars, inputs, source_map, target_map, error, chunk>>

-----------------------------------------------------------------------------
(* diff_csv_parallel_internal: validation, the two collected maps with     *)
(* their duplicate checks, then the two parallel passes and the merge.     *)

ParallelBuildMaps ==
    /\ entry = "parallel"
    /\ pc = "parsed"
    /\ LET shm == HeaderMap(source_headers)
           thm == HeaderMap(target_headers)
           e == validate_key_columns(key_columns, shm, thm)
           smap == collect_key_map(source_rows, shm, key_columns)
           tmap == collect_key_map(target_rows, thm, key_columns) IN
        IF e # NoError
        THEN /\ error' = e
             /\ pc' = "error"
             /\ UNCHANGED <<source_map, target_map>>
        ELSE \E sorder \in Orderings(DOMAIN smap), torder \in Orderings(DOMAIN tmap) :
                LET sdup == first_repeated_key(sorder)
                    tdup == first_repeated_key(torder) IN
                /\ source_map' = smap
                /\ target_map' = IF sdup.found THEN target_map ELSE tmap
                /\ error' = IF sdup.found THEN DuplicatePrimaryKey(sdup.key, "source")
                            ELSE IF tdup.found THEN DuplicatePrimaryKey(tdup.key, "target")
                            ELSE NoError
                /\ pc' = IF sdup.found \/ tdup.found THEN "error" ELSE "parallel_mapped"
    /\ UNCHANGED <<scanvars, taskvars, codecvars, parsevars, cmvars, memvars, inputs, result, chunk>>

ParallelCompare ==
    /\ entry = "parallel"
    /\ pc = "parallel_mapped"
    /\ \E sorder \in Orderings(DOMAIN source_map), torder \in Orderings(DOMAIN target_map) :
        LET removed == parallel_find_removed(source_map, target_map, sorder,
                                             source_rows, source_headers)
            amu == parallel_compare_rows(source_map, target_map, torder,
                                         source_rows, target_rows,
                                         source_headers, target_headers,
                                         excluded_columns, case_sensitive,
                                         ignore_whitespace, ignore_empty_vs_null) IN
        result' = [added |-> amu.added, removed |-> removed, modified |-> amu.modified,
                   unchanged |-> amu.unchanged, mode |-> "primary_key"]
    /\ pc' = "done"
    /\ UNCHANGED <<scanvars, taskvars, codecvars, parsevars, cmvars, memvars, inputs, source_map, target_map, error, chunk>>

-----------------------------------------------------------------------------
(* CsvDifferInternal::new in primary-key mode (init_primary_key).          *)

init_primary_key(srows, trows, sh, th, keys) ==
    LET shm == HeaderMap(sh)
        thm == HeaderMap(th)
        e == validate_key_columns(keys, shm, thm)
        s == build_key_map(srows, shm, keys)
        t == build_key_map(trows, thm, keys) IN
    IF e # NoError THEN [error |-> e, source_map |-> EmptyMap, target_map |-> EmptyMap]
    ELSE IF ~s.ok
    THEN [error |-> DuplicatePrimaryKey(s.key, "source"),
          source_map |-> s.map, target_map |-> EmptyMap]
    ELSE IF ~t.ok
    THEN [error |-> DuplicatePrimaryKey(t.key, "target"),
          source_map |-> s.map, target_map |-> t.map]
    ELSE [error |-> NoError, source_map |-> s.map, target_map |-> t.map]

NewSession ==
    /\ entry = "session"
    /\ pc = "parsed"
    /\ LET s == init_primary_key(source_rows, target_rows, source_headers,
                                 target_headers, key_columns) IN
        /\ error' = s.error
        /\ source_map' = s.source_map
        /\ target_map' = s.target_map
        /\ pc' = IF s.error = NoError THEN "session" ELSE "error"
    /\ UNCHANGED <<scanvars, taskvars, codecvars, parsevars, cmvars, memvars, inputs, result, chunk>>

NextPK ==
    \/ ValidateKeys
    \/ BuildSourceMap
    \/ BuildTargetMap
    \/ CompareRows
    \/ ParallelBuildMaps
    \/ ParallelCompare
    \/ NewSession

SpecPK == InitPK /\ [][NextPK]_vars

-----------------------------------------------------------------------------
(* Properties of the primary-key entry points.                             *)

KeysOf(rows) == [i \in DOMAIN rows |-> rows[i].key]
Occurrences(seq, x) == Cardinality({i \in DOMAIN seq : seq[i] = x})

SourceKey(i) == get_row_key(source_rows[i], HeaderMap(source_headers), key_columns)
TargetKey(j) == get_row_key(target_rows[j], HeaderMap(target_headers), key_columns)

OneShotDone == entry = "one_shot" /\ pc = "done"

\* C1: after a successful one-shot primary-key diff every source row is in
\* exactly one of Removed, Modified, Unchanged and every target row in exactly
\* one of Added, Modified, Unchanged, so |Removed| + |Modified| + |Unchanged|
\* is the source row count and |Added| + |Modified| + |Unchanged| the target
\* row count, whatever order the maps were iterated in.
C1_Partition ==
    OneShotDone =>
        LET src == KeysOf(result.removed) \o KeysOf(result.modified) \o KeysOf(result.unchanged)
            tgt == KeysOf(result.added) \o KeysOf(result.modified) \o KeysOf(result.unchanged) IN
        /\ \A i \in DOMAIN source_rows : Occurrences(src, SourceKey(i)) = 1
        /\ \A j \in DOMAIN target_rows : Occurrences(tgt, TargetKey(j)) = 1
        /\ Len(src) = Len(source_rows)
        /\ Len(tgt) = Len(target_rows)

C1_Witness ==
    /\ OneShotDone
    /\ result.added # <<>>
    /\ result.removed # <<>>
    /\ result.modified # <<>>

KeysValid ==
    \A k \in DOMAIN key_columns :
        /\ key_columns[k] \in Range(source_headers)
        /\ key_columns[k] \in Range(target_headers)

SourceHasDuplicate == \E i, j \in DOMAIN source_rows : i < j /\ SourceKey(i) = SourceKey(j)
TargetHasDuplicate == \E i, j \in DOMAIN target_rows : i < j /\ TargetKey(i) = TargetKey(j)

\* C3: at the sequential key-map entry points (the one-shot diff and the
\* session constructor) a Row Key carried by two rows of one dataset ends the
\* run with a duplicate-key error that names that key and that dataset; no
\* result and no session exist, and a map entry always holds the first row
\* that carried its key.
C3_DuplicateKeyRejected ==
    (entry \in {"one_shot", "session"} /\ KeysValid) =>
        /\ (SourceHasDuplicate \/ TargetHasDuplicate) =>
                /\ pc \notin {"done", "session"}
                /\ result = EmptyResult
        /\ pc = "error" =>
                /\ error.kind = "duplicate_primary_key"
                /\ error.side = IF SourceHasDuplicate THEN "source" ELSE "target"
                /\ IF error.side = "source"
                   THEN \E i, j \in DOMAIN source_rows :
                            i < j /\ SourceKey(i) = error.key /\ SourceKey(j) = error.key
                   ELSE \E i, j \in DOMAIN target_rows :
                            i < j /\ TargetKey(i) = error.key /\ TargetKey(j) = error.key
        /\ \A k \in DOMAIN source_map :
                /\ SourceKey(source_map[k]) = k
                /\ \A i \in DOMAIN source_rows : SourceKey(i) = k => source_map[k] <= i
        /\ \A k \in DOMAIN target_map :
                /\ TargetKey(target_map[k]) = k
                /\ \A j \in DOMAIN target_rows : TargetKey(j) = k => target_map[k] <= j

C3_Witness ==
    /\ entry = "session"
    /\ pc = "error"
    /\ error.kind = "duplicate_primary_key"
    /\ error.side = "target"
    /\ source_map # EmptyMap

MissingKeys ==
    {k \in DOMAIN key_columns :
        key_columns[k] \notin Range(source_headers) \/ key_columns[k] \notin Range(target_headers)}

\* C4: when a key column is absent from the source or the target headers the
\* run fails before any key map is built or any row compared, and the error
\* names the first such column in key-column order, the source being looked
\* at before the target for each column, and the side it is missing from.
C4_MissingKeyColumn ==
    MissingKeys # {} =>
        /\ pc \in {"parsed", "error"}
        /\ source_map = EmptyMap
        /\ target_map = EmptyMap
        /\ result = EmptyResult
        /\ pc = "error" =>
            LET first == CHOOSE m \in MissingKeys : \A n \in MissingKeys : m <= n IN
            /\ error.kind = "key_column_not_found"
            /\ error.column = key_columns[first]
            /\ error.side = IF key_columns[first] \notin Range(source_headers)
                            THEN "source" ELSE "target"

C4_Witness ==
    /\ entry = "one_shot"
    /\ pc = "error"
    /\ key_columns = <<"id", "v">>
    /\ "v" \notin Range(source_headers)
    /\ error = KeyColumnNotFound("id", "target")

\* The outcome of the sequential one-shot diff on the current inputs: its
\* error, or the four bucket sizes (which no iteration order changes).
SequentialOutcome ==
    LET s == init_primary_key(source_rows, target_rows, source_headers,
                              target_headers, key_columns) IN
    IF s.error # NoError THEN [ok |-> FALSE, counts |-> ZeroCounts]
    ELSE LET sorder == CHOOSE o \in Orderings(DOMAIN s.source_map) : TRUE
             torder == CHOOSE o \in Orderings(DOMAIN s.target_map) : TRUE IN
         [ok |-> TRUE,
          counts |-> Counts(compare_rows(s.source_map, s.target_map, sorder, torder,
                                         source_rows, target_rows,
                                         source_headers, target_headers,
                                         excluded_columns, case_sensitive,
                                         ignore_whitespace, ignore_empty_vs_null))]

\* C5: the parallel primary-key diff ends as the sequential one does on the
\* same inputs: it fails exactly when the sequential diff fails, and otherwise
\* reports the same number of added, removed, modified and unchanged rows.
C5_ParallelAgreesWithSequential ==
    (entry = "parallel" /\ pc \in {"done", "error"}) =>
        /\ (pc = "error") = ~SequentialOutcome.ok
        /\ pc = "done" => Counts(result) = SequentialOutcome.counts

NormalizedKey(row, headers) ==
    join([k \in DOMAIN key_columns |->
            normalize_value_with_empty_vs_null(
                Cell(row, HeaderMap(headers)[key_columns[k]]),
                case_sensitive, ignore_whitespace, ignore_empty_vs_null)],
         <<"|">>)

\* C7: the Row Key under which a row is entered in a key map is the join of
\* the normalized values of its key columns.
C7_KeysAreNormalized ==
    (entry = "one_shot" /\ pc \in {"source_mapped", "target_mapped", "done"}) =>
        /\ \A k \in DOMAIN source_map :
                k = NormalizedKey(source_rows[source_map[k]], source_headers)
        /\ \A k \in DOMAIN target_map :
                k = NormalizedKey(target_rows[target_map[k]], target_headers)

-----------------------------------------------------------------------------
(* CsvDifferInternal::diff_chunk in primary-key mode.                      *)

MaxChunkCalls == 2
MaxChunkSize == 2

\* Variant of the chunk diff that reports the removed rows with every chunk.
diff_primary_key_chunk_always_removed(chunk_start, chunk_size, sorder, smap, tmap, srows, trows, sh, th, keys, excl, cs, iw, ien) ==
    LET shm == HeaderMap(sh)
        thm == HeaderMap(th)
        chunk_end == IF chunk_start + chunk_size < Len(trows)
                     THEN chunk_start + chunk_size ELSE Len(trows)
        n == IF chunk_end > chunk_start THEN chunk_end - chunk_start ELSE 0
        classified == [i \in 1..n |->
            classify_target(get_row_key(trows[chunk_start + i], thm, keys), smap, tmap,
                            srows, trows, sh, th, shm, thm, excl, cs, iw, ien)] IN
    [added |-> Bucket(classified, "added"),
     removed |-> find_removed(smap, tmap, sorder, srows, sh),
     modified |-> Bucket(classified, "modified"),
     unchanged |-> Bucket(classified, "unchanged"),
     mode |-> "primary-key"]

\* Variant of the chunk diff that carries on where the call before it ended,
\* whatever start it is given.
diff_primary_key_chunk_resuming(chunk_start, chunk_size, sorder, smap, tmap, srows, trows, sh, th, keys, excl, cs, iw, ien) ==
    LET shm == HeaderMap(sh)
        thm == HeaderMap(th)
        resumed == IF chunk.prev_end < Len(trows) THEN chunk.prev_end ELSE Len(trows)
        chunk_end == IF resumed + chunk_size < Len(trows)
                     THEN resumed + chunk_size ELSE Len(trows)
        n == IF chunk_end > resumed THEN chunk_end - resumed ELSE 0
        classified == [i \in 1..n |->
            classify_target(get_row_key(trows[resumed + i], thm, keys), smap, tmap,
                            srows, trows, sh, th, shm, thm, excl, cs, iw, ien)] IN
    [added |-> Bucket(classified, "added"),
     removed |-> IF chunk_end >= Len(trows)
                 THEN find_removed(smap, tmap, sorder, srows, sh) ELSE <<>>,
     modified |-> Bucket(classified, "modified"),
     unchanged |-> Bucket(classified, "unchanged"),
     mode |-> "primary-key"]

\* The rows chunk_start..chunk_end (Rust indices, end exclusive) of the
\* target are classified against the source map as in the one-shot diff; the
\* removed rows are added when chunk_end has reached the target row count.
diff_primary_key_chunk(chunk_start, chunk_size, sorder, smap, tmap, srows, trows, sh, th, keys, excl, cs, iw, ien) ==
    LET shm == HeaderMap(sh)
        thm == HeaderMap(th)
        chunk_end == IF chunk_start + chunk_size < Len(trows)
                     THEN chunk_start + chunk_size ELSE Len(trows)
        n == IF chunk_end > chunk_start THEN chunk_end - chunk_start ELSE 0
        classified == [i \in 1..n |->
            classify_target(get_row_key(trows[chunk_start + i], thm, keys), smap, tmap,
                            srows, trows, sh, th, shm, thm, excl, cs, iw, ien)] IN
    [added |-> Bucket(classified, "added"),
     removed |-> IF chunk_end >= Len(trows)
                 THEN find_removed(smap, tmap, sorder, srows, sh) ELSE <<>>,
     modified |-> Bucket(classified, "modified"),
     unchanged |-> Bucket(classified, "unchanged"),
     mode |-> "primary-key"]

ChunkConfigs ==
    { [sh |-> <<"id", "v">>, th |-> <<"id", "v">>, keys |-> <<"id">>],
      [sh |-> <<"id", "v">>, th |-> <<"v">>,       keys |-> <<"id">>] }

InitChunk ==
    /\ PKInputs({"session"}, ChunkConfigs)
    /\ pc = "parsed"
    /\ source_map = EmptyMap
    /\ target_map = EmptyMap
    /\ result = EmptyResult
    /\ error = NoError
    /\ chunk = NoChunk
    /\ CMIdle
    /\ MemIdle
    /\ TasksIdle
    /\ ScanIdle
    /\ CodecIdle
    /\ ParseIdle

DiffChunk ==
    /\ entry = "session"
    /\ pc = "session"
    /\ chunk.calls < MaxChunkCalls
    /\ \E chunk_start \in 0..Len(target_rows), chunk_size \in 0..MaxChunkSize,
          sorder \in Orderings(DOMAIN source_map) :
        LET r == diff_primary_key_chunk(chunk_start, chunk_size, sorder,
                                        source_map, target_map, source_rows, target_rows,
                                        source_headers, target_headers, key_columns,
                                        excluded_columns, case_sensitive,
                                        ignore_whitespace, ignore_empty_vs_null) IN
        /\ result' = r
        /\ chunk' = [calls |-> chunk.calls + 1,
                     prev_end |-> chunk_start + chunk_size,
                     ordered |-> chunk.ordered /\ chunk_start >= chunk.prev_end,
                     covered |-> chunk.covered \cup
                                 {i \in 0..(Len(target_rows) - 1) :
                                     chunk_start <= i /\ i < chunk_start + chunk_size},
                     reached |-> chunk.reached +
                                 (IF chunk_start + chunk_size >= Len(target_rows) THEN 1 ELSE 0),
                     sums |-> AddCounts(chunk.sums, Counts(r)),
                     start |-> chunk_start,
                     size |-> chunk_size,
                     repeated |-> /\ chunk.calls >= 1
                                  /\ chunk.start = chunk_start
                                  /\ chunk.size = chunk_size]
    /\ UNCHANGED <<scanvars, taskvars, codecvars, parsevars, cmvars, memvars, inputs, pc, source_map, target_map, error>>

NextChunk ==
    \/ NewSession
    \/ DiffChunk

SpecChunk == InitChunk /\ [][NextChunk]_vars

ChunksOrderedAndCovering ==
    /\ entry = "session"
    /\ pc = "session"
    /\ chunk.calls >= 1
    /\ chunk.ordered
    /\ chunk.covered = 0..(Len(target_rows) - 1)

\* C6 (as stated): in primary-key mode, whenever the diff_chunk calls made on
\* a session have non-overlapping ranges in increasing order that together
\* cover all target rows, the bucket sizes summed over the chunks are the
\* bucket sizes of the one-shot diff on the same inputs and options.
C6_ChunkEquivalence_Stated ==
    ChunksOrderedAndCovering => chunk.sums = SequentialOutcome.counts

\* C6 (amended): the same, for call sequences in which exactly one call has a
\* range that reaches the target row count.
C6_ChunkEquivalence ==
    (ChunksOrderedAndCovering /\ chunk.reached = 1) =>
        chunk.sums = SequentialOutcome.counts

C6_Witness ==
    /\ ChunksOrderedAndCovering
    /\ chunk.reached = 1
    /\ chunk.calls = 2
    /\ chunk.sums.removed > 0
    /\ chunk.sums.added > 0
    /\ chunk.sums.modified > 0

-----------------------------------------------------------------------------
(* Content match: diff_csv_internal.                                        *)

\* The value normalizer the content index is keyed by: trimmed when
\* whitespace is ignored, lowercased when the comparison is case-insensitive.
normalize_value(value, cs, iw) ==
    LET trimmed == IF iw THEN trim(value) ELSE value IN
    IF cs THEN trimmed ELSE to_lowercase(trimmed)

get_row_fingerprint(row, headers, header_map, cs, iw, ien, excl) ==
    LET kept == SelectSeq(headers, LAMBDA h : h \notin excl) IN
    join([k \in DOMAIN kept |->
            normalize_value_with_empty_vs_null(
                IF kept[k] \in DOMAIN header_map
                THEN Cell(row, header_map[kept[k]]) ELSE <<>>,
                cs, iw, ien)],
         <<"|", "|">>)

\* strsim::jaro_winkler on values of at most one character: 1.0 for equal
\* values (two empty values included), 0.0 for different ones.
jaro_winkler(a, b) == IF a = b THEN 1 ELSE 0

\* A similarity score is the fraction num / den.
Score(num, den) == [num |-> num, den |-> den]
ScoreGreater(a, b) == a.num * b.den > b.num * a.den

calculate_row_similarity(row1, row2, headers, hm1, hm2, excl) ==
    LET compared == SelectSeq(headers,
                        LAMBDA h : h \notin excl /\ h \in DOMAIN hm1 /\ h \in DOMAIN hm2)
        total_similarity ==
            SeqSum([k \in DOMAIN compared |->
                jaro_winkler(Cell(row1, hm1[compared[k]]), Cell(row2, hm2[compared[k]]))])
        compared_fields == Len(compared) IN
    IF compared_fields > 0 THEN Score(total_similarity, compared_fields) ELSE Score(0, 1)

\* The target headers the diff works with: the source headers when the two
\* header rows differ but have the same length.
aligned_target_headers(sh, th) == IF sh # th /\ Len(sh) = Len(th) THEN sh ELSE th

Indices(n) == [i \in 1..n |-> i]

SortedSeq(S) == CHOOSE f \in Orderings(S) : \A i, j \in DOMAIN f : i < j => f[i] < f[j]

build_fingerprint_lookup(trows, sh, thm, cs, iw, ien, excl) ==
    LET fp(j) == get_row_fingerprint(trows[j], sh, thm, cs, iw, ien, excl) IN
    [f \in {fp(j) : j \in DOMAIN trows} |->
        SelectSeq(Indices(Len(trows)), LAMBDA j : fp(j) = f)]

build_inverted_index(trows, sh, thm, cs, iw, excl) ==
    LET cols == {c \in DOMAIN sh : sh[c] \notin excl /\ sh[c] \in DOMAIN thm}
        token(c, j) == <<c, normalize_value(Cell(trows[j], thm[sh[c]]), cs, iw)>> IN
    [t \in {token(c, j) : c \in cols, j \in DOMAIN trows} |->
        SelectSeq(Indices(Len(trows)),
                  LAMBDA j : t[1] \in cols /\ token(t[1], j) = t)]

\* Variant of the exact pass that takes the last listed target row whether or
\* not it is still unmatched.
pop_last(indices, unmatched) ==
    IF indices = <<>> THEN [found |-> FALSE, idx |-> 0, rest |-> <<>>]
    ELSE [found |-> TRUE, idx |-> indices[Len(indices)],
          rest |-> SubSeq(indices, 1, Len(indices) - 1)]

\* Variant of the exact pass that never finds a target row.
pop_nothing(indices, unmatched) == [found |-> FALSE, idx |-> 0, rest |-> indices]

\* while let Some(target_idx) = indices.pop(): the last listed target row
\* that is still unmatched; every row popped on the way is dropped.
RECURSIVE pop_unmatched(_, _)
pop_unmatched(indices, unmatched) ==
    IF indices = <<>> THEN [found |-> FALSE, idx |-> 0, rest |-> <<>>]
    ELSE LET target_idx == indices[Len(indices)]
             rest == SubSeq(indices, 1, Len(indices) - 1) IN
         IF target_idx \in unmatched
         THEN [found |-> TRUE, idx |-> target_idx, rest |-> rest]
         ELSE pop_unmatched(rest, unmatched)

row_tokens(source_row, sh, shm, index, cs, iw, excl) ==
    LET source_val(c) == normalize_value(Cell(source_row, shm[sh[c]]), cs, iw)
        cols == SelectSeq(Indices(Len(sh)),
                    LAMBDA c : sh[c] \notin excl /\ <<c, source_val(c)>> \in DOMAIN index) IN
    [k \in DOMAIN cols |->
        [count |-> Len(index[<<cols[k], source_val(cols[k])>>]),
         col_idx |-> cols[k],
         val |-> source_val(cols[k])]]

\* row_tokens.sort_by(|a, b| a.0.cmp(&b.0)), a stable sort.
sort_by_count(tokens) ==
    LET p == CHOOSE o \in Orderings(DOMAIN tokens) :
                \A i, j \in DOMAIN o : i < j =>
                    \/ tokens[o[i]].count < tokens[o[j]].count
                    \/ tokens[o[i]].count = tokens[o[j]].count /\ o[i] < o[j] IN
    [k \in DOMAIN tokens |-> tokens[p[k]]]

BUDGET == 2000
MAX_BUCKET == 10000
TOP_CANDIDATES == 10

saturating_sub(a, b) == IF a > b THEN a - b ELSE 0

\* The budgeted walk over the sorted tokens that fills candidate_scores.
RECURSIVE gather_candidates(_, _, _, _, _, _)
gather_candidates(tokens, k, budget, candidate_scores, index, unmatched) ==
    IF k > Len(tokens) THEN candidate_scores
    ELSE LET count == tokens[k].count IN
         IF count = 0
         THEN gather_candidates(tokens, k + 1, budget, candidate_scores, index, unmatched)
         ELSE IF budget = 0 THEN candidate_scores
         ELSE IF count > budget /\ candidate_scores # EmptyMap THEN candidate_scores
         ELSE IF count > MAX_BUCKET THEN candidate_scores
         ELSE LET hit == {t \in Range(index[<<tokens[k].col_idx, tokens[k].val>>]) :
                              t \in unmatched}
                  scored == [t \in DOMAIN candidate_scores \cup hit |->
                                (IF t \in DOMAIN candidate_scores
                                 THEN candidate_scores[t] ELSE 0)
                                + (IF t \in hit THEN 1 ELSE 0)] IN
              gather_candidates(tokens, k + 1, saturating_sub(budget, count),
                                scored, index, unmatched)

\* candidate_scores in the map's iteration order, sorted (stably) by
\* descending shared-column count and cut to the first TOP_CANDIDATES.
top_candidates(candidate_scores, order) ==
    LET p == CHOOSE o \in Orderings(DOMAIN order) :
                \A i, j \in DOMAIN o : i < j =>
                    \/ candidate_scores[order[o[i]]] > candidate_scores[order[o[j]]]
                    \/ /\ candidate_scores[order[o[i]]] = candidate_scores[order[o[j]]]
                       /\ o[i] < o[j]
        sorted == [k \in DOMAIN order |-> order[p[k]]] IN
    IF Len(sorted) > TOP_CANDIDATES THEN SubSeq(sorted, 1, TOP_CANDIDATES) ELSE sorted

\* The scoring loop: the first candidate with the highest similarity, as
\* long as that similarity is above the initial 0.0.
RECURSIVE best_match(_, _, _, _, _, _, _, _, _, _)
best_match(cands, k, best_match_idx, best_real_score, source_row, trows, sh, shm, thm, excl) ==
    IF k > Len(cands) THEN [idx |-> best_match_idx, score |-> best_real_score]
    ELSE LET score == calculate_row_similarity(source_row, trows[cands[k]],
                                               sh, shm, thm, excl) IN
         IF ScoreGreater(score, best_real_score)
         THEN best_match(cands, k + 1, cands[k], score, source_row, trows, sh, shm, thm, excl)
         ELSE best_match(cands, k + 1, best_match_idx, best_real_score,
                         source_row, trows, sh, shm, thm, excl)

\* Variant of the acceptance test that also takes a score of exactly 0.5.
accepts_from_half(score) == 2 * score.num >= score.den

\* best_real_score > 0.5
accepts(score) == 2 * score.num > score.den

\* One iteration of the source-row loop: the exact pass, then the fuzzy pass.
\* `order` is the iteration order of candidate_scores. The outcome holds the
\* updated buckets, unmatched set and fingerprint lookup, and a record of what
\* was decided for the row.
match_source_row(i, order_of, res, unmatched, lookup, index, srows, trows, sh, th, cs, iw, ien, excl) ==
    LET shm == HeaderMap(sh)
        thm == HeaderMap(th)
        source_row == srows[i]
        source_fingerprint == get_row_fingerprint(source_row, sh, shm, cs, iw, ien, excl)
        listed == source_fingerprint \in DOMAIN lookup
        popped == IF listed THEN pop_unmatched(lookup[source_fingerprint], unmatched)
                  ELSE [found |-> FALSE, idx |-> 0, rest |-> <<>>]
        popped_lookup == IF listed THEN [lookup EXCEPT ![source_fingerprint] = popped.rest]
                         ELSE lookup IN
    IF popped.found
    THEN [result |-> [res EXCEPT !.unchanged =
                        Append(@, [key |-> <<"Row", i>>,
                                   row |-> record_to_hashmap(source_row, sh)])],
          unmatched |-> unmatched \ {popped.idx},
          lookup |-> popped_lookup,
          match |-> [bucket |-> "unchanged", exact |-> TRUE, candidates |-> <<>>]]
    ELSE LET tokens == sort_by_count(row_tokens(source_row, sh, shm, index, cs, iw, excl))
             candidate_scores == gather_candidates(tokens, 1, BUDGET, EmptyMap,
                                                   index, unmatched)
             cands == top_candidates(candidate_scores, order_of[DOMAIN candidate_scores])
             best == best_match(cands, 1, 0, Score(0, 1),
                                source_row, trows, sh, shm, thm, excl) IN
         IF best.idx # 0 /\ accepts(best.score)
         THEN [result |-> [res EXCEPT !.modified =
                            Append(@, [key |-> <<"Row", i>>,
                                       source_row |-> record_to_hashmap(source_row, sh),
                                       target_row |-> record_to_hashmap(trows[best.idx], th),
                                       differences |->
                                            column_differences(source_row, trows[best.idx],
                                                               sh, shm, thm, excl, cs, iw, ien)])],
               unmatched |-> unmatched \ {best.idx},
               lookup |-> popped_lookup,
               match |-> [bucket |-> "modified", exact |-> FALSE, candidates |-> cands]]
         ELSE [result |-> [res EXCEPT !.removed =
                            Append(@, [key |-> <<"Removed", Len(res.removed) + 1>>,
                                       source_row |-> record_to_hashmap(source_row, sh)])],
               unmatched |-> unmatched,
               lookup |-> popped_lookup,
               match |-> [bucket |-> "removed", exact |-> FALSE, candidates |-> cands]]

\* Column p varies in case only, column q in content, column c not at all.
CMValues(h) == IF h = "c" THEN {<<"a">>}
               ELSE IF h = "q" THEN {<<"a">>, <<"b">>}
               ELSE {<<"a">>, <<"A">>}

CMRowsOf(headers) ==
    {r \in [DOMAIN headers -> {<<"a">>, <<"A">>, <<"b">>}] :
        \A c \in DOMAIN headers : r[c] \in CMValues(headers[c])}

CMHeaders == { <<"p", "q">>, <<"p", "q", "c">> }

InitCM ==
    /\ entry = "content_match"
    /\ pc = "parsed"
    /\ source_headers \in CMHeaders
    /\ target_headers = source_headers
    /\ source_rows \in SeqsUpTo(CMRowsOf(source_headers), MaxSourceRows)
    /\ target_rows \in SeqsUpTo(CMRowsOf(target_headers), MaxTargetRows)
    /\ key_columns = <<>>
    /\ excluded_columns = {}
    /\ case_sensitive \in BOOLEAN
    /\ ignore_whitespace = FALSE
    /\ ignore_empty_vs_null = FALSE
    /\ source_map = EmptyMap
    /\ target_map = EmptyMap
    /\ result = EmptyResult
    /\ error = NoError
    /\ chunk = NoChunk
    /\ CMIdle
    /\ MemIdle
    /\ TasksIdle
    /\ ScanIdle
    /\ CodecIdle
    /\ ParseIdle

IndexTargets ==
    /\ entry = "content_match"
    /\ pc = "parsed"
    /\ LET th == aligned_target_headers(source_headers, target_headers) IN
        /\ unmatched_target_indices' = 1..Len(target_rows)
        /\ target_fingerprint_lookup' =
                build_fingerprint_lookup(target_rows, source_headers, HeaderMap(th),
                                         case_sensitive, ignore_whitespace,
                                         ignore_empty_vs_null, excluded_columns)
        /\ inverted_index' =
                build_inverted_index(target_rows, source_headers, HeaderMap(th),
                                     case_sensitive, ignore_whitespace, excluded_columns)
    /\ pc' = "indexed"
    /\ UNCHANGED <<scanvars, taskvars, codecvars, parsevars, row_counter, matches, memvars, inputs, pkvars, result, error>>

MatchSourceRow ==
    /\ entry = "content_match"
    /\ pc = "indexed"
    /\ row_counter <= Len(source_rows)
    /\ \E order \in Orderings(unmatched_target_indices) :
        LET order_of == [S \in SUBSET unmatched_target_indices |->
                            SelectSeq(order, LAMBDA t : t \in S)]
            out == match_source_row(row_counter, order_of, result,
                        unmatched_target_indices, target_fingerprint_lookup,
                        inverted_index, source_rows, target_rows, source_headers,
                        aligned_target_headers(source_headers, target_headers),
                        case_sensitive, ignore_whitespace, ignore_empty_vs_null,
                        excluded_columns) IN
        /\ result' = out.result
        /\ unmatched_target_indices' = out.unmatched
        /\ target_fingerprint_lookup' = out.lookup
        /\ matches' = Append(matches,
                [bucket |-> out.match.bucket,
                 exact |-> out.match.exact,
                 candidates |-> out.match.candidates,
                 taken |-> unmatched_target_indices \ out.unmatched])
    /\ row_counter' = row_counter + 1
    /\ UNCHANGED <<scanvars, taskvars, codecvars, parsevars, inverted_index, memvars, inputs, pkvars, pc, error>>

CollectAdded ==
    /\ entry = "content_match"
    /\ pc = "indexed"
    /\ row_counter > Len(source_rows)
    /\ LET remaining_indices == SortedSeq(unmatched_target_indices)
           th == aligned_target_headers(source_headers, target_headers) IN
        result' = [result EXCEPT
            !.added = [k \in DOMAIN remaining_indices |->
                        [key |-> <<"Added", k>>,
                         target_row |-> record_to_hashmap(target_rows[remaining_indices[k]], th)]],
            !.mode = "content-match"]
    /\ pc' = "done"
    /\ UNCHANGED <<scanvars, taskvars, codecvars, parsevars, cmvars, memvars, inputs, pkvars, error>>

NextCM ==
    \/ IndexTargets
    \/ MatchSourceRow
    \/ CollectAdded

SpecCM == InitCM /\ [][NextCM]_vars

-----------------------------------------------------------------------------
(* Properties of the content-match diff.                                   *)

ContentMatchDone == entry = "content_match" /\ pc = "done"

TakenBy(i) == matches[i].taken

\* C2: after a content-match diff every source row has been classified
\* exactly once as Unchanged, Modified or Removed, every target row was
\* consumed by at most one source row, and Added is exactly the target rows no
\* source row consumed, in index order; so |Unchanged| + |Modified| +
\* |Removed| is the source row count and |Unchanged| + |Modified| + |Added|
\* the target row count.
C2_ContentMatchPartition ==
    ContentMatchDone =>
        LET consumed == UNION {TakenBy(i) : i \in DOMAIN matches}
            left == SortedSeq((1..Len(target_rows)) \ consumed)
            th == aligned_target_headers(source_headers, target_headers)
            paired == KeysOf(result.unchanged) \o KeysOf(result.modified) IN
        /\ DOMAIN matches = DOMAIN source_rows
        /\ \A i \in DOMAIN source_rows :
            /\ matches[i].bucket \in {"unchanged", "modified", "removed"}
            /\ Occurrences(paired, <<"Row", i>>) =
                    IF matches[i].bucket = "removed" THEN 0 ELSE 1
            /\ Cardinality(TakenBy(i)) = IF matches[i].bucket = "removed" THEN 0 ELSE 1
            /\ TakenBy(i) \subseteq 1..Len(target_rows)
        /\ \A i, j \in DOMAIN source_rows : i # j => TakenBy(i) \cap TakenBy(j) = {}
        /\ Len(result.removed) =
                Cardinality({i \in DOMAIN source_rows : matches[i].bucket = "removed"})
        /\ result.added = [k \in DOMAIN left |->
                            [key |-> <<"Added", k>>,
                             target_row |-> record_to_hashmap(target_rows[left[k]], th)]]
        /\ Len(result.unchanged) + Len(result.modified) + Len(result.removed)
                = Len(source_rows)
        /\ Len(result.unchanged) + Len(result.modified) + Len(result.added)
                = Len(target_rows)

\* A target row consumed by the fuzzy pass, then met again by the exact pass
\* of a later source row with the same fingerprint, which ends Removed.
C2_Witness ==
    /\ ContentMatchDone
    /\ Len(source_rows) = 2
    /\ matches[1].bucket = "modified"
    /\ matches[2].bucket = "removed"
    /\ \E t \in TakenBy(1) : target_rows[t] = source_rows[2]
    /\ result.added # <<>>

\* The best similarity among the scored candidates of a source row.
BestScore(i) ==
    LET th == aligned_target_headers(source_headers, target_headers)
        score(t) == calculate_row_similarity(source_rows[i], target_rows[t],
                        source_headers, HeaderMap(source_headers), HeaderMap(th),
                        excluded_columns)
        cands == Range(matches[i].candidates) IN
    IF cands = {} THEN Score(0, 1)
    ELSE score(CHOOSE t \in cands : \A u \in cands : ~ScoreGreater(score(u), score(t)))

-----------------------------------------------------------------------------
(* The memory manager: alloc, dealloc, the binary entry points and the two  *)
(* registers that describe the last binary result.                         *)

MaxPointers == 2
MaxCapacity == 2
MaxLeases == 2

Pointers == 1..MaxPointers

\* Variant of the hand-over in which the result vector is dropped when the
\* entry point returns.
drop(h, ptr, capacity) == h

\* std::mem::forget(binary_data): the allocation stays live.
forget(h, ptr, capacity) == (ptr :> capacity) @@ h

\* Variant of the metadata store that records the length in both registers.
store_length_only(len, capacity) == [length |-> len, capacity |-> len]

\* LAST_BINARY_RESULT_LENGTH = len; LAST_BINARY_RESULT_CAPACITY = capacity;
store_metadata(len, capacity) == [length |-> len, capacity |-> capacity]

Without(h, ptr) == [p \in DOMAIN h \ {ptr} |-> h[p]]

\* The lease a dealloc of ptr is charged to: the latest buffer handed out at
\* that address.
LeaseAt(ptr) ==
    IF \E n \in DOMAIN leases : leases[n].ptr = ptr
    THEN CHOOSE n \in DOMAIN leases :
            /\ leases[n].ptr = ptr
            /\ \A m \in DOMAIN leases : leases[m].ptr = ptr => m <= n
    ELSE 0

InitMem ==
    /\ entry = "memory"
    /\ pc = "ready"
    /\ source_headers = <<>>
    /\ target_headers = <<>>
    /\ source_rows = <<>>
    /\ target_rows = <<>>
    /\ key_columns = <<>>
    /\ excluded_columns = {}
    /\ case_sensitive = TRUE
    /\ ignore_whitespace = FALSE
    /\ ignore_empty_vs_null = FALSE
    /\ source_map = EmptyMap
    /\ target_map = EmptyMap
    /\ result = EmptyResult
    /\ error = NoError
    /\ chunk = NoChunk
    /\ CMIdle
    /\ MemIdle
    /\ TasksIdle
    /\ ScanIdle
    /\ CodecIdle
    /\ ParseIdle

\* alloc(size): Vec::with_capacity(size), forgotten.
Alloc ==
    /\ entry = "memory"
    /\ pc = "ready"
    /\ Len(leases) < MaxLeases
    /\ \E ptr \in Pointers \ DOMAIN heap, size \in 1..MaxCapacity :
        /\ heap' = forget(heap, ptr, size)
        /\ leases' = Append(leases, [kind |-> "alloc", ptr |-> ptr, len |-> 0,
                                     cap |-> size, releases |-> <<>>])
    /\ UNCHANGED <<scanvars, taskvars, codecvars, parsevars, LAST_BINARY_RESULT_LENGTH, LAST_BINARY_RESULT_CAPACITY, caller,
                   cmvars, inputs, pkvars, pc, result, error>>

\* A binary entry point (diff_csv_primary_key_binary, diff_csv_binary,
\* parse_csv_binary) whose diff succeeds: the encoded vector has a length and
\* a capacity at least as large; both go to the registers and the vector is
\* forgotten.
BinaryCallOk ==
    /\ entry = "memory"
    /\ pc = "ready"
    /\ Len(leases) < MaxLeases
    /\ \E ptr \in Pointers \ DOMAIN heap, capacity \in 1..MaxCapacity :
        \E len \in 1..capacity :
            LET meta == store_metadata(len, capacity) IN
            /\ LAST_BINARY_RESULT_LENGTH' = meta.length
            /\ LAST_BINARY_RESULT_CAPACITY' = meta.capacity
            /\ heap' = forget(heap, ptr, capacity)
            /\ leases' = Append(leases, [kind |-> "result", ptr |-> ptr, len |-> len,
                                         cap |-> capacity, releases |-> <<>>])
            /\ caller' = [caller EXCEPT
                            !.phase = "has_ptr", !.ptr = ptr, !.len = 0, !.cap = 0,
                            !.disciplined = @ /\ caller.phase = "idle",
                            !.last_call = "ok",
                            !.before = <<LAST_BINARY_RESULT_LENGTH,
                                         LAST_BINARY_RESULT_CAPACITY>>]
    /\ UNCHANGED <<scanvars, taskvars, codecvars, parsevars, cmvars, inputs, pkvars, pc, result, error>>

\* A binary entry point whose arguments or diff fail: Err is returned before
\* anything is encoded.
BinaryCallErr ==
    /\ entry = "memory"
    /\ pc = "ready"
    /\ caller' = [caller EXCEPT
                    !.disciplined = @ /\ caller.phase = "idle",
                    !.last_call = "failed",
                    !.before = <<LAST_BINARY_RESULT_LENGTH, LAST_BINARY_RESULT_CAPACITY>>]
    /\ UNCHANGED <<scanvars, taskvars, codecvars, parsevars, heap, LAST_BINARY_RESULT_LENGTH, LAST_BINARY_RESULT_CAPACITY, leases,
                   cmvars, inputs, pkvars, pc, result, error>>

GetBinaryResultLength ==
    /\ entry = "memory"
    /\ pc = "ready"
    /\ caller.phase = "has_ptr"
    /\ caller' = [caller EXCEPT !.phase = "has_len", !.len = LAST_BINARY_RESULT_LENGTH]
    /\ UNCHANGED <<scanvars, taskvars, codecvars, parsevars, heap, LAST_BINARY_RESULT_LENGTH, LAST_BINARY_RESULT_CAPACITY, leases,
                   cmvars, inputs, pkvars, pc, result, error>>

GetBinaryResultCapacity ==
    /\ entry = "memory"
    /\ pc = "ready"
    /\ caller.phase = "has_len"
    /\ caller' = [caller EXCEPT !.phase = "has_meta", !.cap = LAST_BINARY_RESULT_CAPACITY]
    /\ UNCHANGED <<scanvars, taskvars, codecvars, parsevars, heap, LAST_BINARY_RESULT_LENGTH, LAST_BINARY_RESULT_CAPACITY, leases,
                   cmvars, inputs, pkvars, pc, result, error>>

\* dealloc(ptr, size). A null pointer returns at once. Otherwise a vector of
\* capacity `size` is rebuilt at ptr and dropped: this releases a live
\* allocation of that capacity, and is undefined behaviour for anything else
\* (the allocation, if there is one, may or may not survive).
Dealloc ==
    /\ entry = "memory"
    /\ pc = "ready"
    /\ \E ptr \in {NULL} \cup Pointers, size \in 0..MaxCapacity :
        LET n == LeaseAt(ptr)
            valid == ptr \in DOMAIN heap /\ heap[ptr] = size
            returns_result == /\ caller.phase = "has_meta"
                              /\ ptr = caller.ptr
                              /\ size = caller.cap
            returns_alloc == /\ n # 0
                             /\ leases[n].kind = "alloc"
                             /\ leases[n].cap = size
                             /\ leases[n].releases = <<>> IN
        /\ \/ ptr = NULL /\ heap' = heap /\ pc' = pc
           \/ ptr # NULL /\ valid /\ heap' = Without(heap, ptr) /\ pc' = pc
           \/ ptr # NULL /\ ~valid /\ heap' \in {heap, Without(heap, ptr)} /\ pc' = "ub"
        /\ leases' = IF ptr # NULL /\ n # 0
                     THEN [leases EXCEPT ![n].releases = Append(@, size)]
                     ELSE leases
        /\ caller' = [caller EXCEPT
                        !.phase = IF ptr # NULL /\ ptr = caller.ptr THEN "idle" ELSE @,
                        !.disciplined = @ /\ (ptr = NULL \/ returns_result \/ returns_alloc),
                        !.last_dealloc = [ptr |-> ptr, size |-> size,
                                          released |-> DOMAIN heap \ DOMAIN heap',
                                          called |-> TRUE]]
    /\ UNCHANGED <<scanvars, taskvars, codecvars, parsevars, LAST_BINARY_RESULT_LENGTH, LAST_BINARY_RESULT_CAPACITY,
                   cmvars, inputs, pkvars, result, error>>

NextMem ==
    \/ Alloc
    \/ BinaryCallOk
    \/ BinaryCallErr
    \/ GetBinaryResultLength
    \/ GetBinaryResultCapacity
    \/ Dealloc

SpecMem == InitMem /\ [][NextMem]_vars

-----------------------------------------------------------------------------
(* Properties of the memory manager.                                       *)

ResultLeases == SelectSeq(leases, LAMBDA l : l.kind = "result")

\* C9: the two registers hold the length and the capacity of the buffer
\* produced by the most recent successful binary-producing call (zero before
\* the first one), whatever became of earlier buffers; a call that fails
\* leaves both registers as they were; and the length register never exceeds
\* the capacity register.
C9_RegistersDescribeLastResult ==
    entry = "memory" =>
        /\ IF ResultLeases = <<>>
           THEN /\ LAST_BINARY_RESULT_LENGTH = 0
                /\ LAST_BINARY_RESULT_CAPACITY = 0
           ELSE /\ LAST_BINARY_RESULT_LENGTH = ResultLeases[Len(ResultLeases)].len
                /\ LAST_BINARY_RESULT_CAPACITY = ResultLeases[Len(ResultLeases)].cap
        /\ caller.last_call = "failed" =>
                caller.before = <<LAST_BINARY_RESULT_LENGTH, LAST_BINARY_RESULT_CAPACITY>>
        /\ LAST_BINARY_RESULT_LENGTH <= LAST_BINARY_RESULT_CAPACITY

\* Two results of different capacity, the first still allocated, then a
\* failing call.
C9_Witness ==
    /\ entry = "memory"
    /\ Len(ResultLeases) = 2
    /\ ResultLeases[1].releases = <<>>
    /\ ResultLeases[1].cap # ResultLeases[2].cap
    /\ ResultLeases[2].len < ResultLeases[2].cap
    /\ caller.last_call = "failed"

\* C10: while the caller keeps to the lease protocol (binary call, read the
\* length and the capacity, dealloc(ptr, capacity) before the next binary
\* call), every buffer handed out stays allocated with its capacity until the
\* caller's dealloc and is then released exactly once, with its own capacity;
\* nothing but a dealloc call releases an allocation; and dealloc with a null
\* pointer releases nothing, whatever the size.
C10_BufferLease ==
    entry = "memory" =>
        /\ caller.disciplined =>
            /\ pc # "ub"
            /\ \A n \in DOMAIN leases :
                IF leases[n].releases = <<>>
                THEN /\ leases[n].ptr \in DOMAIN heap
                     /\ heap[leases[n].ptr] = leases[n].cap
                ELSE /\ leases[n].releases = <<leases[n].cap>>
                     /\ \/ leases[n].ptr \notin DOMAIN heap
                        \/ \E m \in DOMAIN leases : m > n /\ leases[m].ptr = leases[n].ptr
        /\ caller.last_dealloc.ptr = NULL => caller.last_dealloc.released = {}

\* Two results leased and returned in turn, then a dealloc of the null
\* pointer with a non-zero size.
C10_Witness ==
    /\ entry = "memory"
    /\ caller.disciplined
    /\ Len(ResultLeases) = 2
    /\ \A n \in DOMAIN ResultLeases : ResultLeases[n].releases = <<ResultLeases[n].cap>>
    /\ ResultLeases[1].len < ResultLeases[1].cap
    /\ caller.last_dealloc.called
    /\ caller.last_dealloc.ptr = NULL
    /\ caller.last_dealloc.size > 0
    /\ heap = EmptyMap

-----------------------------------------------------------------------------
(* binary.rs: the binary result codec.  A byte is a number in 0..255; the  *)
(* decoder's positions are the Rust offsets, so that the byte at offset p  *)
(* is buffer[p + 1].                                                       *)

MaxResultRows == 1

\* str::as_bytes for the characters the encoded results are written in, and
\* the characters of the column names.
Utf8 ==
    [c \in {"d", "i", "v", "x", "y"} |->
        CASE c = "d" -> 100 [] c = "i" -> 105 [] c = "v" -> 118
          [] c = "x" -> 120 [] c = "y" -> 121]

as_bytes(s) == [i \in DOMAIN s |-> Utf8[s[i]]]

chars(name) ==
    CASE name = "id" -> <<"i", "d">>
      [] name = "v" -> <<"v">>

\* u32::to_le_bytes written most significant byte first.
to_be_bytes(value) ==
    << (value \div 16777216) % 256, (value \div 65536) % 256,
       (value \div 256) % 256, value % 256 >>

\* u32::to_le_bytes and u32::from_le_bytes.
to_le_bytes(value) ==
    << value % 256, (value \div 256) % 256,
       (value \div 65536) % 256, (value \div 16777216) % 256 >>

from_le_bytes(bytes) ==
    bytes[1] + 256 * bytes[2] + 65536 * bytes[3] + 16777216 * bytes[4]

write_u8(buffer, value) == Append(buffer, value)

write_u32(buffer, value) == buffer \o to_le_bytes(value)

write_string(buffer, s) ==
    LET bytes == as_bytes(s) IN
    write_u32(buffer, Len(bytes)) \o bytes

\* write_row_data: the field count, then every (key, value) pair of the map
\* in the map's iteration order.
RECURSIVE write_fields(_, _, _, _)
write_fields(buffer, row, order, i) ==
    IF i > Len(order) THEN buffer
    ELSE write_fields(write_string(write_string(buffer, chars(order[i])), row[order[i]]),
                      row, order, i + 1)

write_row_data(buffer, row, order) ==
    write_fields(write_u32(buffer, Cardinality(DOMAIN row)), row, order, 1)

RECURSIVE write_differences(_, _, _)
write_differences(buffer, differences, i) ==
    IF i > Len(differences) THEN buffer
    ELSE LET diff == differences[i] IN
         write_differences(
            write_string(write_string(write_string(buffer, chars(diff.column)),
                                      diff.old_value), diff.new_value),
            differences, i + 1)

\* The maps a result holds, in the order the encoder writes them.
RowDataBlocks(r) ==
    [i \in DOMAIN r.added |-> r.added[i].target_row]
    \o [i \in DOMAIN r.removed |-> r.removed[i].source_row]
    \o [n \in 1..(2 * Len(r.modified)) |->
            IF n % 2 = 1 THEN r.modified[(n + 1) \div 2].source_row
            ELSE r.modified[n \div 2].target_row]
    \o [i \in DOMAIN r.unchanged |-> r.unchanged[i].row]

\* One iteration order for each of those maps.
BlockOrders(r) ==
    LET blocks == RowDataBlocks(r)
        all == UNION {Orderings(DOMAIN blocks[i]) : i \in DOMAIN blocks} IN
    {os \in [DOMAIN blocks -> all] :
        \A i \in DOMAIN blocks : os[i] \in Orderings(DOMAIN blocks[i])}

\* "Write added rows", "Write removed rows", "Write unchanged rows": the
\* loops over one bucket whose rows carry one map; base is the number of
\* maps written before the bucket.
RECURSIVE write_rows(_, _, _, _, _, _, _)
write_rows(buffer, tag, rows, field, orders, base, i) ==
    IF i > Len(rows) THEN buffer
    ELSE write_rows(
            write_row_data(write_string(write_u8(buffer, tag), rows[i].key),
                           rows[i][field], orders[base + i]),
            tag, rows, field, orders, base, i + 1)

\* "Write modified rows".
RECURSIVE write_modified_rows(_, _, _, _, _)
write_modified_rows(buffer, rows, orders, base, i) ==
    IF i > Len(rows) THEN buffer
    ELSE LET row == rows[i]
             keyed == write_string(write_u8(buffer, 3), row.key)
             source == write_row_data(keyed, row.source_row, orders[base + 2 * i - 1])
             target == write_row_data(source, row.target_row, orders[base + 2 * i])
             counted == write_u32(target, Len(row.differences)) IN
         write_modified_rows(write_differences(counted, row.differences, 1),
                             rows, orders, base, i + 1)

write_header_big_endian(buffer, r) ==
    buffer \o to_be_bytes(Len(r.added) + Len(r.removed) + Len(r.modified) + Len(r.unchanged))
           \o to_be_bytes(Len(r.added)) \o to_be_bytes(Len(r.removed))
           \o to_be_bytes(Len(r.modified)) \o to_be_bytes(Len(r.unchanged))

\* "Write header".
write_header(buffer, r) ==
    LET total == write_u32(buffer, Len(r.added) + Len(r.removed)
                                   + Len(r.modified) + Len(r.unchanged))
        added == write_u32(total, Len(r.added))
        removed == write_u32(added, Len(r.removed))
        modified == write_u32(removed, Len(r.modified)) IN
    write_u32(modified, Len(r.unchanged))

\* BinaryEncoder::encode_diff_result on an encoder whose buffer is `buffer`.
encode_diff_result(buffer, r, orders) ==
    LET header == write_header(buffer, r)
        added == write_rows(header, 1, r.added, "target_row", orders, 0, 1)
        removed == write_rows(added, 2, r.removed, "source_row", orders, Len(r.added), 1)
        modified == write_modified_rows(removed, r.modified, orders,
                                        Len(r.added) + Len(r.removed), 1) IN
    write_rows(modified, 4, r.unchanged, "row", orders,
               Len(r.added) + Len(r.removed) + 2 * Len(r.modified), 1)

\* The decoder.  A read returns how it ended ("ok", or "panic" when a slice
\* index is out of range), the value read, the position it leaves and the
\* offsets of the bytes it looked at.
Read(outcome, value, position, reads) ==
    [outcome |-> outcome, value |-> value, position |-> position, reads |-> reads]

Offsets(from, to) == from..(to - 1)

Slice(buffer, from, to) == SubSeq(buffer, from + 1, to)

\* String::from_utf8_lossy: a byte sequence that is not UTF-8 decodes to
\* U+FFFD; in ASCII every byte is one character.
REPLACEMENT_CHARACTER == 65533

from_utf8_lossy(bytes) ==
    [i \in DOMAIN bytes |-> IF bytes[i] < 128 THEN bytes[i] ELSE REPLACEMENT_CHARACTER]

read_u8(buffer, position) ==
    IF position < Len(buffer)
    THEN Read("ok", buffer[position + 1], position + 1, {position})
    ELSE Read("panic", 0, position, {})

read_u32_unchecked(buffer, position) ==
    Read("ok", from_le_bytes([k \in 1..4 |->
                                IF position + k <= Len(buffer) THEN buffer[position + k]
                                ELSE 0]),
         position + 4, Offsets(position, position + 4))

read_u32(buffer, position) ==
    IF position + 4 <= Len(buffer)
    THEN Read("ok", from_le_bytes(Slice(buffer, position, position + 4)),
              position + 4, Offsets(position, position + 4))
    ELSE Read("panic", 0, position, {})

read_string(buffer, position) ==
    LET len == read_u32(buffer, position) IN
    IF len.outcome # "ok" THEN len
    ELSE IF len.position + len.value <= Len(buffer)
    THEN Read("ok", from_utf8_lossy(Slice(buffer, len.position, len.position + len.value)),
              len.position + len.value,
              len.reads \cup Offsets(len.position, len.position + len.value))
    ELSE Read("panic", <<>>, len.position, len.reads)

\* The loop of read_row_data: `left` fields still to read into `row`.
RECURSIVE read_fields(_, _, _, _, _)
read_fields(buffer, position, left, row, reads) ==
    IF left = 0 THEN Read("ok", row, position, reads)
    ELSE LET key == read_string(buffer, position) IN
         IF key.outcome # "ok"
         THEN Read("panic", row, key.position, reads \cup key.reads)
         ELSE LET value == read_string(buffer, key.position) IN
              IF value.outcome # "ok"
              THEN Read("panic", row, value.position, reads \cup key.reads \cup value.reads)
              ELSE read_fields(buffer, value.position, left - 1,
                               (key.value :> value.value) @@ row,
                               reads \cup key.reads \cup value.reads)

read_row_data(buffer, position) ==
    LET field_count == read_u32(buffer, position) IN
    IF field_count.outcome # "ok" THEN Read("panic", EmptyMap, position, {})
    ELSE read_fields(buffer, field_count.position, field_count.value, EmptyMap,
                     field_count.reads)

\* The five reads of decode_header, `done` being the values read so far.
RECURSIVE read_counts(_, _, _, _)
read_counts(buffer, position, done, reads) ==
    IF Len(done) = 5 THEN Read("ok", done, position, reads)
    ELSE LET n == read_u32(buffer, position) IN
         IF n.outcome # "ok" THEN Read("panic", done, position, reads)
         ELSE read_counts(buffer, n.position, Append(done, n.value), reads \cup n.reads)

decode_header(buffer, position) == read_counts(buffer, position, <<>>, {})

\* The results handed to the encoder: at most MaxResultRows rows, of these.
AddedRows == { [key |-> <<"x">>, target_row |-> [v |-> <<>>]] }

RemovedRows == { [key |-> <<"x">>, source_row |-> [id |-> <<"x">>, v |-> <<"y">>]] }

ModifiedRows ==
    { [key |-> <<"x">>, source_row |-> [v |-> <<"x">>], target_row |-> [v |-> <<"y">>],
       differences |-> << [column |-> "v", old_value |-> <<"x">>, new_value |-> <<"y">>] >>] }

UnchangedRows == { [key |-> <<>>, row |-> [v |-> <<"x">>]] }

AllBinResults ==
    { [added |-> a, removed |-> r, modified |-> m, unchanged |-> u, mode |-> "primary-key"] :
        a \in SeqsUpTo(AddedRows, MaxResultRows), r \in SeqsUpTo(RemovedRows, MaxResultRows),
        m \in SeqsUpTo(ModifiedRows, MaxResultRows),
        u \in SeqsUpTo(UnchangedRows, MaxResultRows) }

BinResults ==
    {r \in AllBinResults :
        Len(r.added) + Len(r.removed) + Len(r.modified) + Len(r.unchanged) <= MaxResultRows}

\* The byte slices a decoder is built over: what the encoder returned, a
\* prefix of it, or a copy with one byte changed.
CorruptBytes == {3, 127}

Corrupted(buffer) ==
    {[buffer EXCEPT ![i] = b] : i \in DOMAIN buffer, b \in CorruptBytes} \ {buffer}

Truncated(buffer) == {SubSeq(buffer, 1, n) : n \in 0..(Len(buffer) - 1)}

NoDatasets ==
    /\ source_headers = <<>>
    /\ target_headers = <<>>
    /\ source_rows = <<>>
    /\ target_rows = <<>>
    /\ key_columns = <<>>
    /\ excluded_columns = {}
    /\ case_sensitive = TRUE
    /\ ignore_whitespace = FALSE
    /\ ignore_empty_vs_null = FALSE
    /\ source_map = EmptyMap
    /\ target_map = EmptyMap
    /\ chunk = NoChunk

InitCodec ==
    /\ entry = "codec"
    /\ pc = "ready"
    /\ NoDatasets
    /\ result = EmptyResult
    /\ error = NoError
    /\ CMIdle
    /\ MemIdle
    /\ TasksIdle
    /\ ScanIdle
    /\ CodecIdle
    /\ ParseIdle

\* BinaryEncoder::new() and encode_diff_result(&result), as every binary
\* entry point calls them.
EncodeDiffResult ==
    /\ entry = "codec"
    /\ pc = "ready"
    /\ pc' = "encoded"
    /\ \E r \in BinResults :
        \E orders \in BlockOrders(r) :
            LET buffer == encode_diff_result(<<>>, r, orders) IN
            /\ result' = r
            /\ encoder' = [buffer |-> buffer]
            /\ decoded' = [op |-> "encode_diff_result", outcome |-> "ok", value |-> buffer,
                           start |-> 0, reads |-> {}]
    /\ UNCHANGED <<scanvars, taskvars, inputs, error, pkvars, cmvars, memvars, parsevars, decoder>>

\* BinaryDecoder::new(buffer).
DecoderNew ==
    /\ entry = "codec"
    /\ pc = "encoded"
    /\ pc' = "decoding"
    /\ \/ decoder' = [buffer |-> encoder.buffer, position |-> 0, whole |-> TRUE,
                      of |-> result]
       \/ \E buffer \in Truncated(encoder.buffer) \cup Corrupted(encoder.buffer) :
            decoder' = [buffer |-> buffer, position |-> 0, whole |-> FALSE,
                        of |-> EmptyResult]
    /\ decoded' = [op |-> "new", outcome |-> "ok", value |-> <<>>, start |-> 0, reads |-> {}]
    /\ UNCHANGED <<scanvars, taskvars, inputs, result, error, pkvars, cmvars, memvars, parsevars, encoder>>

\* One call of a decoder method; a panic ends the decoder's use.
DecoderCall(op, r) ==
    /\ entry = "codec"
    /\ pc = "decoding"
    /\ decoded.outcome = "ok"
    /\ decoder' = [decoder EXCEPT !.position = r.position]
    /\ decoded' = [op |-> op, outcome |-> r.outcome, value |-> r.value,
                   start |-> decoder.position, reads |-> r.reads]
    /\ UNCHANGED <<scanvars, taskvars, inputs, pc, result, error, pkvars, cmvars, memvars, parsevars, encoder>>

DecodeHeader == DecoderCall("decode_header", decode_header(decoder.buffer, decoder.position))

ReadU8 == DecoderCall("read_u8", read_u8(decoder.buffer, decoder.position))

ReadU32 == DecoderCall("read_u32", read_u32(decoder.buffer, decoder.position))

ReadString == DecoderCall("read_string", read_string(decoder.buffer, decoder.position))

ReadRowData == DecoderCall("read_row_data", read_row_data(decoder.buffer, decoder.position))

NextCodec ==
    \/ EncodeDiffResult
    \/ DecoderNew
    \/ DecodeHeader
    \/ ReadU8
    \/ ReadU32
    \/ ReadString
    \/ ReadRowData

SpecCodec == InitCodec /\ [][NextCodec]_vars

-----------------------------------------------------------------------------
(* Properties of the binary codec.                                         *)

HeaderCounts(r) ==
    << Len(r.added) + Len(r.removed) + Len(r.modified) + Len(r.unchanged),
       Len(r.added), Len(r.removed), Len(r.modified), Len(r.unchanged) >>

\* Byte b (0 the least significant) of a number.
ByteOf(n, b) == (n \div (256 ^ b)) % 256

HeaderDecoded ==
    /\ pc = "decoding"
    /\ decoded.op = "decode_header"
    /\ decoded.start = 0
    /\ decoder.whole

\* C11: decode_header over what encode_diff_result returned gives (total,
\* added, removed, modified, unchanged) equal to the bucket sizes of the
\* encoded result, total being their sum; the encoder wrote each of the five
\* as four bytes, least significant first; and a result with four empty
\* buckets is encoded in exactly 20 bytes.
C11_HeaderRoundTrip ==
    /\ HeaderDecoded =>
        /\ decoded.outcome = "ok"
        /\ decoded.value = HeaderCounts(decoder.of)
        /\ decoded.value[1] = decoded.value[2] + decoded.value[3]
                              + decoded.value[4] + decoded.value[5]
    /\ decoded.op = "encode_diff_result" =>
        /\ Len(decoded.value) >= 20
        /\ \A k \in 1..5 : \A b \in 0..3 :
                decoded.value[4 * (k - 1) + b + 1] = ByteOf(HeaderCounts(result)[k], b)
        /\ HeaderCounts(result)[1] = 0 => Len(decoded.value) = 20

C11_Witness ==
    /\ HeaderDecoded
    /\ decoder.of.modified # <<>>
    /\ decoded.value = <<1, 0, 0, 1, 0>>

DecoderOps == {"decode_header", "read_u8", "read_u32", "read_string", "read_row_data"}

\* The number a four-byte field at offset p holds.
FieldAt(buffer, p) ==
    buffer[p + 1] + 256 * buffer[p + 2] + 65536 * buffer[p + 3] + 16777216 * buffer[p + 4]

\* Where the format says a length-prefixed string at offset p ends, and
\* where n key/value pairs at offset p end; PastEnd when a prefix is itself
\* cut off by the end of the buffer.
PastEnd(buffer) == Len(buffer) + 1

StringEnd(buffer, p) ==
    IF p + 4 > Len(buffer) THEN PastEnd(buffer) ELSE p + 4 + FieldAt(buffer, p)

RECURSIVE PairsEnd(_, _, _)
PairsEnd(buffer, p, n) ==
    IF n = 0 \/ p > Len(buffer) THEN p
    ELSE LET key == StringEnd(buffer, p) IN
         IF key > Len(buffer) THEN key
         ELSE LET value == StringEnd(buffer, key) IN
              IF value > Len(buffer) THEN value
              ELSE PairsEnd(buffer, value, n - 1)

FormatEnd(op, buffer, p) ==
    CASE op = "read_u8" -> p + 1
      [] op = "read_u32" -> p + 4
      [] op = "decode_header" -> p + 20
      [] op = "read_string" -> StringEnd(buffer, p)
      [] op = "read_row_data" ->
            IF p + 4 > Len(buffer) THEN PastEnd(buffer)
            ELSE PairsEnd(buffer, p + 4, FieldAt(buffer, p))

Overruns ==
    /\ pc = "decoding"
    /\ decoded.op \in DecoderOps
    /\ FormatEnd(decoded.op, decoder.buffer, decoded.start) > Len(decoder.buffer)

\* C12: a decoder call whose fixed-width field or length prefix reaches past
\* the end of the buffer (a buffer shorter than the 20-byte header included)
\* ends in an error, here the panic of a slice index out of range, and no
\* call looks at an offset outside the buffer.
C12_DecoderRejectsOverrun ==
    /\ Overruns => decoded.outcome = "panic"
    /\ (pc = "decoding" /\ decoded.op \in DecoderOps) =>
        /\ decoded.reads \subseteq Offsets(0, Len(decoder.buffer))
        /\ decoded.outcome = "ok" =>
            decoder.position = FormatEnd(decoded.op, decoder.buffer, decoded.start)

C12_Witness ==
    /\ Overruns
    /\ decoded.op = "read_string"
    /\ decoded.start + 4 <= Len(decoder.buffer)
    /\ decoded.outcome = "panic"
    /\ Len(decoder.buffer) >= 20

-----------------------------------------------------------------------------
(* The mode tag of a returned result.                                      *)

\* C13: the result a primary-key entry point returns is tagged
\* "primary-key" (and the result of a content-match one "content-match").
C13_ModeTag ==
    (pc = "done" /\ entry \in {"one_shot", "parallel"}) => result.mode = "primary-key"

-----------------------------------------------------------------------------
(* core.rs / parse.rs: the parser and its header detection.  The text is   *)
(* modelled record by record, every record a sequence of raw fields.       *)

MaxRecords == 3
MaxFields == 2

IsAsciiDigit(c) == c \in {"0", "1", "2", "3", "4", "5", "6", "7", "8", "9"}

DigitChars == <<"0", "1", "2", "3", "4", "5", "6", "7", "8", "9">>

\* format!("{}", n) for a number.
RECURSIVE decimal(_)
decimal(n) ==
    IF n < 10 THEN <<DigitChars[n + 1]>>
    ELSE Append(decimal(n \div 10), DigitChars[(n % 10) + 1])

\* format!("Column{}", i + 1) for i in 0..col_count.
generated_headers(col_count) ==
    [i \in 1..col_count |-> <<"C", "o", "l", "u", "m", "n">> \o decimal(i)]

\* The reader built with trim(Trim::All) and flexible(false): every field
\* trimmed, and a record whose field count differs from the first record's
\* read as an error.  records() reads on after such an error.
ReadRecord(content, i) ==
    IF Len(content[i]) = Len(content[1])
    THEN [ok |-> TRUE, record |-> [c \in DOMAIN content[i] |-> trim(content[i][c])]]
    ELSE [ok |-> FALSE, record |-> <<>>]

\* rdr.records() from record `from` on, collected into Result<Vec<_>, _>.
collect_records(content, from) ==
    LET read == [i \in from..Len(content) |-> ReadRecord(content, i)] IN
    IF \E i \in from..Len(content) : ~read[i].ok
    THEN [ok |-> FALSE, rows |-> <<>>]
    ELSE [ok |-> TRUE, rows |-> [n \in 1..(Len(content) - from + 1) |-> read[n + from - 1].record]]

all_ascii_digit(h) == \A i \in DOMAIN trim(h) : IsAsciiDigit(trim(h)[i])

\* "Check if headers look like data": headers.iter().any(..).
header_looks_like_data(headers, first_row) ==
    /\ Len(headers) = Len(first_row)
    /\ \E i \in DOMAIN headers :
        \/ all_ascii_digit(headers[i])
        \/ (Len(trim(headers[i])) <= 6 /\ all_ascii_digit(headers[i]))

ParseOk(headers, rows) ==
    [outcome |-> "ok", headers |-> headers, rows |-> rows, header_map |-> HeaderMap(headers)]

ParseErr == [outcome |-> "error"]

parse_csv_internal(content, with_headers) ==
    IF with_headers
    THEN LET headers == IF content = <<>> THEN <<>> ELSE ReadRecord(content, 1).record
             rows == collect_records(content, 2) IN
         IF ~rows.ok THEN ParseErr
         ELSE IF headers # <<>> /\ rows.rows # <<>>
                 /\ header_looks_like_data(headers, rows.rows[1])
         THEN LET auto_rows == collect_records(content, 1) IN
              IF ~auto_rows.ok THEN ParseErr
              ELSE ParseOk(generated_headers(Len(rows.rows[1])), auto_rows.rows)
         ELSE ParseOk(headers, rows.rows)
    ELSE LET rows == collect_records(content, 1) IN
         IF ~rows.ok THEN ParseErr
         ELSE IF rows.rows = <<>> THEN ParseOk(<<>>, <<>>)
         ELSE ParseOk(generated_headers(Len(rows.rows[1])), rows.rows)

parse_csv_streaming_no_headers(content, chunk_size) ==
    LET rows == collect_records(content, 1) IN
    IF ~rows.ok THEN ParseErr
    ELSE IF rows.rows # <<>> /\ Len(rows.rows[1]) > 0
    THEN ParseOk(generated_headers(Len(rows.rows[1])), rows.rows)
    ELSE ParseOk(<<>>, <<>>)

\* parse_csv_streaming: the header record, then one record read ahead with
\* rdr.records().next() (an error in it is dropped), then the loop over the
\* records the reader has not handed out yet.
parse_csv_streaming(content, with_headers, chunk_size) ==
    LET first == IF with_headers THEN 2 ELSE 1
        peeked == first <= Len(content)
        first_row == IF peeked THEN ReadRecord(content, first) ELSE [ok |-> FALSE, record |-> <<>>]
        headers == IF with_headers
                   THEN (IF content = <<>> THEN <<>> ELSE ReadRecord(content, 1).record)
                   ELSE (IF first_row.ok THEN generated_headers(Len(first_row.record)) ELSE <<>>)
        rest == collect_records(content, first + 1) IN
    IF with_headers /\ first_row.ok /\ header_looks_like_data(headers, first_row.record)
    THEN parse_csv_streaming_no_headers(content, chunk_size)
    ELSE IF ~rest.ok THEN ParseErr
    ELSE ParseOk(headers, rest.rows)

\* The texts handed to the parser: up to MaxRecords records of up to
\* MaxFields fields.
ParseFields == { <<"n">>, <<>>, <<" ", "7">> }

ParseRecords == UNION {[1..n -> ParseFields] : n \in 1..MaxFields}

InitParse ==
    /\ entry = "parse"
    /\ pc = "ready"
    /\ NoDatasets
    /\ result = EmptyResult
    /\ error = NoError
    /\ CMIdle
    /\ MemIdle
    /\ TasksIdle
    /\ ScanIdle
    /\ CodecIdle
    /\ csv_content \in SeqsUpTo(ParseRecords, MaxRecords)
    /\ has_headers \in BOOLEAN
    /\ parsed = NotParsed

ParseCsvInternal ==
    /\ entry = "parse"
    /\ pc = "ready"
    /\ parsed' = [by |-> "parse_csv_internal"] @@ parse_csv_internal(csv_content, has_headers)
    /\ pc' = "done"
    /\ UNCHANGED <<scanvars, taskvars, inputs, result, error, pkvars, cmvars, memvars, codecvars,
                   csv_content, has_headers>>

ParseCsvStreaming ==
    /\ entry = "parse"
    /\ pc = "ready"
    /\ \E chunk_size \in 1..MaxChunkSize :
        parsed' = [by |-> "parse_csv_streaming"]
                  @@ parse_csv_streaming(csv_content, has_headers, chunk_size)
    /\ pc' = "done"
    /\ UNCHANGED <<scanvars, taskvars, inputs, result, error, pkvars, cmvars, memvars, codecvars,
                   csv_content, has_headers>>

NextParse ==
    \/ ParseCsvInternal
    \/ ParseCsvStreaming

SpecParse == InitParse /\ [][NextParse]_vars

-----------------------------------------------------------------------------
(* Properties of the parser.                                               *)

TrimmedRecord(i) == [c \in DOMAIN csv_content[i] |-> trim(csv_content[i][c])]

\* Every header token consists only of digits, and there is a first data
\* row with as many columns as there are header tokens.
EveryHeaderLooksLikeData ==
    /\ Len(csv_content) >= 2
    /\ Len(csv_content[2]) = Len(csv_content[1])
    /\ \A c \in DOMAIN csv_content[1] :
        \A i \in DOMAIN TrimmedRecord(1)[c] : IsAsciiDigit(TrimmedRecord(1)[c][i])

\* C14: with has_headers set, a successful parse returns the synthesized
\* headers Column1..ColumnN over every record of the input exactly when every
\* header token is all digits and the first data row has as many columns;
\* otherwise its headers are the first record.
C14_HeaderDetection ==
    (pc = "done" /\ has_headers /\ parsed.outcome = "ok" /\ csv_content # <<>>) =>
        IF EveryHeaderLooksLikeData
        THEN /\ parsed.headers = generated_headers(Len(csv_content[1]))
             /\ Len(parsed.rows) = Len(csv_content)
        ELSE parsed.headers = TrimmedRecord(1)

-----------------------------------------------------------------------------
(* The primary-key diff under every normalization policy and with an       *)
(* excluded column: a dataset against itself, or against a one-row target. *)

PolicyValues == { <<"x">>, <<"X">>, <<"n", "u", "l", "l">>, <<"N", "U", "L", "L">> }

PolicyRows == {r \in [1..2 -> {<<"a">>, <<"b">>} \cup PolicyValues] :
                  r[1] \in {<<"a">>, <<"b">>} /\ r[2] \in PolicyValues}

InitPolicy ==
    /\ entry \in {"one_shot", "parallel"}
    /\ pc = "parsed"
    /\ source_headers = <<"id", "v">>
    /\ target_headers = <<"id", "v">>
    /\ key_columns = <<"id">>
    /\ source_rows \in SeqsUpTo(PolicyRows, MaxSourceRows)
    /\ target_rows \in {t \in SeqsUpTo(PolicyRows, MaxTargetRows) :
                            t = source_rows \/ Len(t) <= 1}
    /\ excluded_columns \in {{}, {"v"}}
    /\ case_sensitive \in BOOLEAN
    /\ ignore_whitespace \in BOOLEAN
    /\ ignore_empty_vs_null \in BOOLEAN
    /\ source_map = EmptyMap
    /\ target_map = EmptyMap
    /\ result = EmptyResult
    /\ error = NoError
    /\ chunk = NoChunk
    /\ CMIdle
    /\ MemIdle
    /\ TasksIdle
    /\ ScanIdle
    /\ CodecIdle
    /\ ParseIdle

NextPolicy ==
    \/ ValidateKeys
    \/ BuildSourceMap
    \/ BuildTargetMap
    \/ CompareRows
    \/ ParallelBuildMaps
    \/ ParallelCompare

SpecPolicy == InitPolicy /\ [][NextPolicy]_vars

SelfDiffDone ==
    /\ pc = "done"
    /\ target_rows = source_rows
    /\ target_headers = source_headers
    /\ ~SourceHasDuplicate

\* C15: a primary-key diff of a dataset against itself, its keys unique,
\* returns no Added, no Removed and no Modified row and as many Unchanged
\* rows as the dataset has rows, whatever the policy and the excluded columns.
C15_SelfDiffIsUnchanged ==
    SelfDiffDone =>
        Counts(result) = [added |-> 0, removed |-> 0, modified |-> 0,
                          unchanged |-> Len(source_rows)]

C15_Witness ==
    /\ SelfDiffDone
    /\ Len(source_rows) = 2
    /\ ignore_empty_vs_null
    /\ ~case_sensitive
    /\ excluded_columns = {}
    /\ Len(result.unchanged) = 2

\* The compared columns in which a source row and a target row differ, and
\* whether they differ there in nothing but letter case.
ComparedColumns == {c \in DOMAIN source_headers : source_headers[c] \notin excluded_columns}

CaseOnlyColumns(i, j) ==
    {c \in ComparedColumns : source_rows[i][c] # target_rows[j][c]}

DifferOnlyInCase(i, j) ==
    /\ SourceKey(i) = TargetKey(j)
    /\ CaseOnlyColumns(i, j) # {}
    /\ \A c \in ComparedColumns :
        to_lowercase(source_rows[i][c]) = to_lowercase(target_rows[j][c])

RowsWithKey(rows, key) == {n \in DOMAIN rows : rows[n].key = key}

\* Of those columns, the ones the empty-vs-null policy does not make equal.
NullEquated(i, j, c) ==
    /\ ignore_empty_vs_null
    /\ is_empty_or_null(source_rows[i][c])
    /\ is_empty_or_null(target_rows[j][c])

ClassifiedAs(i, j, columns) ==
    IF case_sensitive /\ columns # {}
    THEN /\ RowsWithKey(result.unchanged, SourceKey(i)) = {}
         /\ \E n \in RowsWithKey(result.modified, SourceKey(i)) :
                Len(result.modified[n].differences) = Cardinality(columns)
    ELSE /\ RowsWithKey(result.modified, SourceKey(i)) = {}
         /\ RowsWithKey(result.unchanged, SourceKey(i)) # {}

CasePairsDone == pc = "done" /\ ~SourceHasDuplicate /\ ~TargetHasDuplicate

\* C16 as stated: rows with the same key that differ only in letter case are
\* Unchanged when case_sensitive is false, and Modified with one Difference
\* for each differing column when it is true.
C16_CasePolicy_Stated ==
    CasePairsDone =>
        \A i \in DOMAIN source_rows : \A j \in DOMAIN target_rows :
            DifferOnlyInCase(i, j) => ClassifiedAs(i, j, CaseOnlyColumns(i, j))

\* C16: the same, a column whose two cells are empty or spell "null" (in any
\* letter case) counting as equal when ignore_empty_vs_null is set.
C16_CasePolicy ==
    CasePairsDone =>
        \A i \in DOMAIN source_rows : \A j \in DOMAIN target_rows :
            DifferOnlyInCase(i, j) =>
                ClassifiedAs(i, j, {c \in CaseOnlyColumns(i, j) : ~NullEquated(i, j, c)})

C16_Witness ==
    /\ CasePairsDone
    /\ case_sensitive
    /\ ~ignore_empty_vs_null
    /\ \E i \in DOMAIN source_rows : \E j \in DOMAIN target_rows : DifferOnlyInCase(i, j)
    /\ Len(result.modified) = 1
    /\ Len(result.modified[1].differences) = 1

-----------------------------------------------------------------------------
(* CsvDifferInternal in content-match mode: init_content_match and         *)
(* diff_content_match_chunk.                                               *)

\* The score of one candidate: the compared columns whose normalized values
\* are equal, over the compared columns.
chunk_score(source_row, target_row, sh, shm, thm, cs, iw, excl) ==
    LET compared == SelectSeq(sh, LAMBDA h : h \notin excl /\ h \in DOMAIN thm)
        match_count ==
            SeqSum([k \in DOMAIN compared |->
                IF normalize_value(Cell(source_row, shm[compared[k]]), cs, iw)
                     = normalize_value(Cell(target_row, thm[compared[k]]), cs, iw)
                THEN 1 ELSE 0])
        total_compared == Len(compared) IN
    IF total_compared > 0 THEN Score(match_count, total_compared) ELSE Score(0, 1)

RECURSIVE chunk_best_match(_, _, _, _, _, _, _, _, _, _, _, _)
chunk_best_match(cands, k, best_match_idx, best_real_score, source_row, trows, sh, shm, thm, cs, iw, excl) ==
    IF k > Len(cands) THEN [idx |-> best_match_idx, score |-> best_real_score]
    ELSE LET score == chunk_score(source_row, trows[cands[k]], sh, shm, thm, cs, iw, excl) IN
         IF ScoreGreater(score, best_real_score)
         THEN chunk_best_match(cands, k + 1, cands[k], score, source_row, trows,
                               sh, shm, thm, cs, iw, excl)
         ELSE chunk_best_match(cands, k + 1, best_match_idx, best_real_score, source_row,
                               trows, sh, shm, thm, cs, iw, excl)

\* AHashSet::remove on the unmatched target indices, and a variant that
\* leaves the set as it is.
remove_nothing(indices, idx) == indices

remove(indices, idx) == indices \ {idx}

\* One iteration of the chunk's source-row loop on the state `st` (the four
\* buckets built so far, the unmatched set, the fingerprint lookup and the
\* target rows this call has taken); `order` is the iteration order of
\* candidate_scores.
chunk_match_source_row(i, order, st, index, srows, trows, sh, th, cs, iw, ien, excl) ==
    LET shm == HeaderMap(sh)
        thm == HeaderMap(th)
        source_row == srows[i]
        unmatched == st.unmatched
        source_fingerprint == get_row_fingerprint(source_row, sh, shm, cs, iw, ien, excl)
        listed == source_fingerprint \in DOMAIN st.lookup
        popped == IF listed THEN pop_unmatched(st.lookup[source_fingerprint], unmatched)
                  ELSE [found |-> FALSE, idx |-> 0, rest |-> <<>>]
        popped_lookup == IF listed THEN [st.lookup EXCEPT ![source_fingerprint] = popped.rest]
                         ELSE st.lookup IN
    IF popped.found
    THEN [st EXCEPT !.unchanged = Append(@, [key |-> <<"Row", i>>,
                                             row |-> record_to_hashmap(source_row, sh)]),
                    !.unmatched = remove(unmatched, popped.idx),
                    !.lookup = popped_lookup,
                    !.taken = Append(@, popped.idx)]
    ELSE LET tokens == sort_by_count(row_tokens(source_row, sh, shm, index, cs, iw, excl))
             candidate_scores == gather_candidates(tokens, 1, BUDGET, EmptyMap,
                                                   index, unmatched)
             cands == top_candidates(candidate_scores,
                                     SelectSeq(order, LAMBDA t : t \in DOMAIN candidate_scores))
             best == chunk_best_match(cands, 1, 0, Score(0, 1), source_row, trows,
                                      sh, shm, thm, cs, iw, excl) IN
         IF best.idx # 0 /\ accepts(best.score)
         THEN [st EXCEPT !.modified =
                            Append(@, [key |-> <<"Row", i>>,
                                       source_row |-> record_to_hashmap(source_row, sh),
                                       target_row |-> record_to_hashmap(trows[best.idx], th),
                                       differences |->
                                            column_differences(source_row, trows[best.idx],
                                                               sh, shm, thm, excl, cs, iw, ien)]),
                         !.unmatched = remove(unmatched, best.idx),
                         !.lookup = popped_lookup,
                         !.taken = Append(@, best.idx)]
         ELSE [st EXCEPT !.removed =
                            Append(@, [key |-> <<"Removed", Len(st.removed) + 1>>,
                                       source_row |-> record_to_hashmap(source_row, sh)]),
                         !.lookup = popped_lookup]

\* The loop over the source rows chunk_start..chunk_end (Rust indices).
RECURSIVE chunk_rows(_, _, _, _, _, _, _, _, _, _, _, _, _, _)
chunk_rows(i, chunk_start, chunk_end, orders, st, index, srows, trows, sh, th, cs, iw, ien, excl) ==
    IF i >= chunk_end THEN st
    ELSE chunk_rows(i + 1, chunk_start, chunk_end, orders,
                    chunk_match_source_row(i + 1, orders[i - chunk_start + 1], st, index,
                                           srows, trows, sh, th, cs, iw, ien, excl),
                    index, srows, trows, sh, th, cs, iw, ien, excl)

\* "On the last chunk (of source rows), find added rows".
remaining_added(unmatched, trows, th) ==
    LET remaining_indices == SortedSeq(unmatched) IN
    [k \in DOMAIN remaining_indices |->
        [key |-> <<"Added", k>>,
         target_row |-> record_to_hashmap(trows[remaining_indices[k]], th)]]

\* Variant of the chunk that reports the remaining target rows in every call.
diff_content_match_chunk_always_added(chunk_start, chunk_size, orders, unmatched, lookup, index, srows, trows, sh, th, cs, iw, ien, excl) ==
    LET chunk_end == IF chunk_start + chunk_size < Len(srows)
                     THEN chunk_start + chunk_size ELSE Len(srows)
        st == chunk_rows(chunk_start, chunk_start, chunk_end, orders,
                         [removed |-> <<>>, modified |-> <<>>, unchanged |-> <<>>,
                          unmatched |-> unmatched, lookup |-> lookup, taken |-> <<>>],
                         index, srows, trows, sh, th, cs, iw, ien, excl) IN
    [result |-> [added |-> remaining_added(st.unmatched, trows, th),
                 removed |-> st.removed, modified |-> st.modified,
                 unchanged |-> st.unchanged, mode |-> "content-match"],
     unmatched |-> st.unmatched, lookup |-> st.lookup, taken |-> st.taken]

diff_content_match_chunk(chunk_start, chunk_size, orders, unmatched, lookup, index, srows, trows, sh, th, cs, iw, ien, excl) ==
    LET chunk_end == IF chunk_start + chunk_size < Len(srows)
                     THEN chunk_start + chunk_size ELSE Len(srows)
        st == chunk_rows(chunk_start, chunk_start, chunk_end, orders,
                         [removed |-> <<>>, modified |-> <<>>, unchanged |-> <<>>,
                          unmatched |-> unmatched, lookup |-> lookup, taken |-> <<>>],
                         index, srows, trows, sh, th, cs, iw, ien, excl) IN
    [result |-> [added |-> IF chunk_end >= Len(srows)
                           THEN remaining_added(st.unmatched, trows, th) ELSE <<>>,
                 removed |-> st.removed, modified |-> st.modified,
                 unchanged |-> st.unchanged, mode |-> "content-match"],
     unmatched |-> st.unmatched, lookup |-> st.lookup, taken |-> st.taken]


\* What the caller of a content-match session has seen: the number of
\* diff_chunk calls, and of the last call how it ended, whether its requested
\* range ended before the last source row, the source rows it processed, the
\* unmatched set before it and the target rows it paired (in pairing order);
\* over all calls the source rows processed, whether a call processed a row
\* an earlier call had processed, and every target index a call has paired.
NoContentChunk ==
    [calls |-> 0, outcome |-> "none", early |-> FALSE, rows |-> {}, before |-> {},
     taken |-> <<>>, seen |-> {}, overlapped |-> FALSE, gone |-> {}]

\* The rows that differ from (a, a, a) in at most one column.
SessionRows ==
    {r \in CMRowsOf(<<"p", "q", "c">>) : r[1] = <<"a">> \/ r[2] = <<"a">>}

InitCMChunk ==
    /\ entry = "content_session"
    /\ pc = "parsed"
    /\ source_headers = <<"p", "q", "c">>
    /\ target_headers = source_headers
    /\ source_rows \in SeqsUpTo(SessionRows, MaxSourceRows)
    /\ target_rows \in SeqsUpTo(SessionRows, MaxTargetRows)
    /\ key_columns = <<>>
    /\ excluded_columns = {}
    /\ case_sensitive = TRUE
    /\ ignore_whitespace = FALSE
    /\ ignore_empty_vs_null = FALSE
    /\ source_map = EmptyMap
    /\ target_map = EmptyMap
    /\ result = EmptyResult
    /\ error = NoError
    /\ chunk = NoContentChunk
    /\ CMIdle
    /\ MemIdle
    /\ TasksIdle
    /\ ScanIdle
    /\ CodecIdle
    /\ ParseIdle

\* CsvDifferInternal::new in content-match mode.
NewContentSession ==
    /\ entry = "content_session"
    /\ pc = "parsed"
    /\ LET th == aligned_target_headers(source_headers, target_headers) IN
        /\ unmatched_target_indices' = 1..Len(target_rows)
        /\ target_fingerprint_lookup' =
                build_fingerprint_lookup(target_rows, source_headers, HeaderMap(th),
                                         case_sensitive, ignore_whitespace,
                                         ignore_empty_vs_null, excluded_columns)
        /\ inverted_index' =
                build_inverted_index(target_rows, source_headers, HeaderMap(th),
                                     case_sensitive, ignore_whitespace, excluded_columns)
    /\ pc' = "session"
    /\ UNCHANGED <<scanvars, taskvars, codecvars, parsevars, row_counter, matches, memvars, inputs, pkvars, result, error>>

\* One diff_chunk call on a content-match session.  `chunk_end - chunk_start`
\* is a usize subtraction: for a start past the source rows it panics before
\* anything is changed in a build with overflow checks and wraps in a build
\* without them, where skip(chunk_start) then leaves the loop no row.
DiffContentChunk ==
    /\ entry = "content_session"
    /\ pc = "session"
    /\ chunk.calls < MaxChunkCalls
    /\ \E chunk_start \in 0..(Len(source_rows) + 1), chunk_size \in 0..MaxChunkSize :
        LET chunk_end == IF chunk_start + chunk_size < Len(source_rows)
                         THEN chunk_start + chunk_size ELSE Len(source_rows)
            rows == (chunk_start + 1)..chunk_end
            called == [chunk EXCEPT !.calls = @ + 1,
                                    !.early = chunk_start + chunk_size < Len(source_rows),
                                    !.before = unmatched_target_indices] IN
        \/ /\ chunk_start > Len(source_rows)
           /\ chunk' = [called EXCEPT !.outcome = "panic", !.rows = {}, !.taken = <<>>]
           /\ UNCHANGED <<result, unmatched_target_indices, target_fingerprint_lookup>>
        \/ \E orders \in [1..(chunk_end - chunk_start) -> Orderings(1..Len(target_rows))] :
            LET out == diff_content_match_chunk(chunk_start, chunk_size, orders,
                            unmatched_target_indices, target_fingerprint_lookup,
                            inverted_index, source_rows, target_rows, source_headers,
                            aligned_target_headers(source_headers, target_headers),
                            case_sensitive, ignore_whitespace, ignore_empty_vs_null,
                            excluded_columns) IN
            /\ result' = out.result
            /\ unmatched_target_indices' = out.unmatched
            /\ target_fingerprint_lookup' = out.lookup
            /\ chunk' = [called EXCEPT !.outcome = "ok",
                                       !.rows = rows,
                                       !.taken = out.taken,
                                       !.seen = @ \cup rows,
                                       !.overlapped = @ \/ (rows \cap chunk.seen # {}),
                                       !.gone = @ \cup Range(out.taken)]
    /\ UNCHANGED <<scanvars, taskvars, codecvars, parsevars, inverted_index, row_counter, matches, memvars, inputs, source_map, target_map, pc, error>>

NextCMChunk ==
    \/ NewContentSession
    \/ DiffContentChunk

SpecCMChunk == InitCMChunk /\ [][NextCMChunk]_vars


\* The result the last call returned: a call that panicked returned none.
LastChunkResult == IF chunk.outcome = "ok" THEN result ELSE EmptyResult

\* The source rows (1-based) the last call paired, in processing order, and
\* the fingerprint equality an exact pairing rests on.
PairedSources ==
    SortedSeq({r.key[2] : r \in Range(LastChunkResult.unchanged)
                                    \cup Range(LastChunkResult.modified)})

SameFingerprint(s, t) ==
    LET th == aligned_target_headers(source_headers, target_headers) IN
    get_row_fingerprint(source_rows[s], source_headers, HeaderMap(source_headers),
                        case_sensitive, ignore_whitespace, ignore_empty_vs_null,
                        excluded_columns)
      = get_row_fingerprint(target_rows[t], source_headers, HeaderMap(th),
                            case_sensitive, ignore_whitespace, ignore_empty_vs_null,
                            excluded_columns)

\* The k-th target the last call took is the target of the k-th row it paired.
PairedWith(k) ==
    LET s == PairedSources[k]
        t == chunk.taken[k]
        th == aligned_target_headers(source_headers, target_headers) IN
    \/ \E u \in Range(LastChunkResult.unchanged) :
            u.key = <<"Row", s>> /\ SameFingerprint(s, t)
    \/ \E m \in Range(LastChunkResult.modified) :
            /\ m.key = <<"Row", s>>
            /\ m.target_row = record_to_hashmap(target_rows[t], th)

\* C17: in a content-match session, whatever ranges the diff_chunk calls
\* name, the unmatched set after a call is a subset of the set before it, no
\* index any call has removed is in the set, and the indices the call removed
\* are exactly the targets paired with the Unchanged and Modified rows the
\* call returned.
C17_UnmatchedOnlyShrinks ==
    (entry = "content_session" /\ chunk.calls >= 1) =>
        /\ unmatched_target_indices \subseteq chunk.before
        /\ chunk.gone \cap unmatched_target_indices = {}
        /\ chunk.before \ unmatched_target_indices = Range(chunk.taken)
        /\ Len(chunk.taken) = Cardinality(Range(chunk.taken))
        /\ Len(chunk.taken) = Len(LastChunkResult.unchanged) + Len(LastChunkResult.modified)
        /\ \A k \in DOMAIN chunk.taken : PairedWith(k)

\* A second call that went over a source row again: the target the first
\* call paired it with stayed out of the set, so the row came back Removed,
\* and the call paired another row exactly.
C17_Witness ==
    /\ entry = "content_session"
    /\ chunk.calls = 2
    /\ chunk.overlapped
    /\ chunk.taken # <<>>
    /\ chunk.gone # Range(chunk.taken)
    /\ result.removed # <<>>
    /\ result.unchanged # <<>>

-----------------------------------------------------------------------------
(* Chunked sessions of both modes.                                         *)

SpecSession == (InitChunk \/ InitCMChunk) /\ [][NextChunk \/ NextCMChunk]_vars

\* C18: a diff_chunk call whose range ends before the row count of the sliced
\* side (the target rows in primary-key mode, the source rows in
\* content-match mode) returns the final bucket empty: Removed in
\* primary-key mode, Added in content-match mode.
C18_FinalBucketOnLastChunk ==
    /\ (entry = "session" /\ pc = "session" /\ chunk.calls >= 1
            /\ chunk.prev_end < Len(target_rows)) => result.removed = <<>>
    /\ (entry = "content_session" /\ chunk.calls >= 1 /\ chunk.outcome = "ok"
            /\ chunk.early) => result.added = <<>>

\* A content-match call that ended before the last source row, paired a
\* target row, left another unmatched and returned no Added row.
C18_Witness ==
    /\ entry = "content_session"
    /\ chunk.calls >= 1
    /\ chunk.outcome = "ok"
    /\ chunk.early
    /\ chunk.taken # <<>>
    /\ unmatched_target_indices # {}
    /\ result.added = <<>>

\* The same in primary-key mode: an early chunk with a source key no target
\* row has and no Removed row.
C18_WitnessPrimaryKey ==
    /\ entry = "session"
    /\ pc = "session"
    /\ chunk.calls = 1
    /\ chunk.prev_end < Len(target_rows)
    /\ \E k \in DOMAIN source_map : k \notin DOMAIN target_map
    /\ result.removed = <<>>
    /\ result.unchanged # <<>>


-----------------------------------------------------------------------------
(* Content match between files whose columns differ.                       *)

\* The source has a column the target lacks: no alignment takes place (the
\* header counts differ) and column c is compared in no pair.
InitCMColumns ==
    /\ entry = "content_match"
    /\ pc = "parsed"
    /\ source_headers = <<"p", "q", "c">>
    /\ target_headers = <<"p", "q">>
    /\ source_rows \in SeqsUpTo(CMRowsOf(source_headers), MaxSourceRows)
    /\ target_rows \in SeqsUpTo(CMRowsOf(target_headers), MaxTargetRows)
    /\ key_columns = <<>>
    /\ excluded_columns = {}
    /\ case_sensitive \in BOOLEAN
    /\ ignore_whitespace = FALSE
    /\ ignore_empty_vs_null = FALSE
    /\ source_map = EmptyMap
    /\ target_map = EmptyMap
    /\ result = EmptyResult
    /\ error = NoError
    /\ chunk = NoChunk
    /\ CMIdle
    /\ MemIdle
    /\ TasksIdle
    /\ ScanIdle
    /\ CodecIdle
    /\ ParseIdle

SpecCMColumns == InitCMColumns /\ [][NextCM]_vars

\* C19: every row of the Modified bucket of a finished content-match diff
\* carries at least one Difference.
C19_ModifiedHasDifference ==
    ContentMatchDone => \A m \in Range(result.modified) : m.differences # <<>>


-----------------------------------------------------------------------------
(* Parallel content match: diff_csv_content_match_parallel.                *)

\* target_value_lookup: the target rows listed under every (column index,
\* raw cell) they hold, blank cells and excluded columns left out.
build_value_lookup(trows, th, excl) ==
    LET holds(j, c) == /\ c \in DOMAIN trows[j]
                       /\ th[c] \notin excl
                       /\ trim(trows[j][c]) # <<>>
        cells == {jc \in (DOMAIN trows) \X (DOMAIN th) : holds(jc[1], jc[2])} IN
    [key \in {<<jc[2], trows[jc[1]][jc[2]]>> : jc \in cells} |->
        SelectSeq(Indices(Len(trows)),
                  LAMBDA j : holds(j, key[1]) /\ trows[j][key[1]] = key[2])]

\* The sequential exact pass over all source rows.  `st` holds the Unchanged
\* rows, the unmatched targets, the fingerprint lookup, the source rows left
\* for the fuzzy pass and the pairs made.
RECURSIVE exact_pass(_, _, _, _, _, _, _, _)
exact_pass(i, st, srows, sh, cs, iw, ien, excl) ==
    IF i > Len(srows) THEN st
    ELSE LET source_fingerprint ==
                get_row_fingerprint(srows[i], sh, HeaderMap(sh), cs, iw, ien, excl)
             listed == source_fingerprint \in DOMAIN st.lookup
             popped == IF listed
                       THEN pop_unmatched(st.lookup[source_fingerprint], st.unmatched)
                       ELSE [found |-> FALSE, idx |-> 0, rest |-> <<>>]
             lookup == IF listed THEN [st.lookup EXCEPT ![source_fingerprint] = popped.rest]
                       ELSE st.lookup IN
         exact_pass(i + 1,
            IF popped.found
            THEN [st EXCEPT !.unchanged = Append(@, [key |-> <<"Row", i>>,
                                                     row |-> record_to_hashmap(srows[i], sh)]),
                            !.unmatched = remove(st.unmatched, popped.idx),
                            !.lookup = lookup,
                            !.pairs = Append(@, [source_idx |-> i, target_idx |-> popped.idx,
                                                 score |-> Score(1, 1), phase |-> "exact",
                                                 accepted |-> TRUE])]
            ELSE [st EXCEPT !.lookup = lookup,
                            !.unmatched_source_indices = Append(@, i)],
            srows, sh, cs, iw, ien, excl)

\* The unmatched targets that share a raw cell with the source row in a
\* column of the same name.
find_candidates(source_row, sh, thm, excl, target_value_lookup, unmatched_targets_set) ==
    UNION {Range(target_value_lookup[<<thm[sh[c]], source_row[c]>>])
                \cap unmatched_targets_set :
           c \in {c \in DOMAIN source_row :
                    /\ sh[c] \notin excl
                    /\ trim(source_row[c]) # <<>>
                    /\ sh[c] \in DOMAIN thm
                    /\ <<thm[sh[c]], source_row[c]>> \in DOMAIN target_value_lookup}}

\* avg_score: 1.0 for every compared column whose normalized values are
\* equal, their Jaro-Winkler similarity otherwise, over the compared columns.
avg_score(source_row, target_row, sh, shm, thm, excl, cs, iw, ien) ==
    LET compared == SelectSeq(sh, LAMBDA h : h \notin excl /\ h \in DOMAIN thm)
        s_norm(h) == normalize_value_with_empty_vs_null(Cell(source_row, shm[h]), cs, iw, ien)
        t_norm(h) == normalize_value_with_empty_vs_null(Cell(target_row, thm[h]), cs, iw, ien)
        total_score ==
            SeqSum([k \in DOMAIN compared |->
                IF s_norm(compared[k]) = t_norm(compared[k]) THEN 1
                ELSE jaro_winkler(s_norm(compared[k]), t_norm(compared[k]))])
        comparisons == Len(compared) IN
    IF comparisons > 0 THEN Score(total_score, comparisons) ELSE Score(0, 1)

SIMILARITY_THRESHOLD == Score(1, 2)

\* The loop over the candidates in the set's iteration order.
RECURSIVE best_candidate(_, _, _, _, _, _, _, _, _, _, _, _, _)
best_candidate(cands, k, best_match_idx, best_match_score, source_row, trows, sh, shm, thm, excl, cs, iw, ien) ==
    IF k > Len(cands) THEN [idx |-> best_match_idx, score |-> best_match_score]
    ELSE LET score == avg_score(source_row, trows[cands[k]], sh, shm, thm, excl, cs, iw, ien) IN
         IF ScoreGreater(score, SIMILARITY_THRESHOLD) /\ ScoreGreater(score, best_match_score)
         THEN best_candidate(cands, k + 1, cands[k], score, source_row, trows,
                             sh, shm, thm, excl, cs, iw, ien)
         ELSE best_candidate(cands, k + 1, best_match_idx, best_match_score, source_row,
                             trows, sh, shm, thm, excl, cs, iw, ien)

\* potential_matches: the best candidate of every source row the exact pass
\* left, in the order of those rows; rows without one are filtered out.
RECURSIVE potential_matches(_, _, _, _, _, _, _, _, _, _, _, _, _)
potential_matches(k, unmatched_source_indices, orders, target_value_lookup, unmatched_targets_set, srows, trows, sh, th, excl, cs, iw, ien) ==
    IF k > Len(unmatched_source_indices) THEN <<>>
    ELSE LET source_idx == unmatched_source_indices[k]
             candidates == find_candidates(srows[source_idx], sh, HeaderMap(th), excl,
                                           target_value_lookup, unmatched_targets_set)
             best == best_candidate(SelectSeq(orders[k], LAMBDA t : t \in candidates), 1, 0,
                                    Score(0, 1), srows[source_idx], trows, sh,
                                    HeaderMap(sh), HeaderMap(th), excl, cs, iw, ien)
             rest == potential_matches(k + 1, unmatched_source_indices, orders,
                                       target_value_lookup, unmatched_targets_set,
                                       srows, trows, sh, th, excl, cs, iw, ien) IN
         IF best.idx # 0
         THEN <<[source_idx |-> source_idx, target_idx |-> best.idx, score |-> best.score]>>
              \o rest
         ELSE rest

\* Variant of the conflict resolution that takes the candidates unsorted.
sort_by_score_unsorted(ms) == ms

\* sorted_matches.sort_by(|a, b| b.score.partial_cmp(&a.score)...), a stable
\* sort by descending score.
sort_by_score(ms) ==
    LET p == CHOOSE o \in Orderings(DOMAIN ms) :
                \A i, j \in DOMAIN o : i < j =>
                    \/ ScoreGreater(ms[o[i]].score, ms[o[j]].score)
                    \/ /\ ~ScoreGreater(ms[o[j]].score, ms[o[i]].score)
                       /\ o[i] < o[j] IN
    [k \in DOMAIN ms |-> ms[p[k]]]

\* "Resolve conflicts": the loop over the sorted matches.
RECURSIVE resolve_conflicts(_, _, _, _, _, _, _, _, _, _, _)
resolve_conflicts(sorted_matches, k, st, srows, trows, sh, th, excl, cs, iw, ien) ==
    IF k > Len(sorted_matches) THEN st
    ELSE LET m == sorted_matches[k]
             skipped == \/ m.source_idx \in st.matched_source_indices
                        \/ m.target_idx \notin st.unmatched
                        \/ m.target_idx \in st.used_target_indices_in_fuzzy
             entry_of(accepted) ==
                [source_idx |-> m.source_idx, target_idx |-> m.target_idx,
                 score |-> m.score, phase |-> "fuzzy", accepted |-> accepted] IN
         resolve_conflicts(sorted_matches, k + 1,
            IF skipped
            THEN [st EXCEPT !.pairs = Append(@, entry_of(FALSE))]
            ELSE [st EXCEPT
                    !.matched_source_indices = @ \cup {m.source_idx},
                    !.used_target_indices_in_fuzzy = @ \cup {m.target_idx},
                    !.unmatched = remove(@, m.target_idx),
                    !.modified = Append(@,
                        [key |-> <<"Row", m.source_idx>>,
                         source_row |-> record_to_hashmap(srows[m.source_idx], sh),
                         target_row |-> record_to_hashmap(trows[m.target_idx], th),
                         differences |->
                            column_differences(srows[m.source_idx], trows[m.target_idx], sh,
                                               HeaderMap(sh), HeaderMap(th), excl, cs, iw, ien)]),
                    !.pairs = Append(@, entry_of(TRUE))],
            srows, trows, sh, th, excl, cs, iw, ien)


ParHeaders == { <<"p", "q", "c">>, <<"p", "q", "c", "d">> }

\* Column d does not vary.
ParRowsOf(headers) ==
    {r \in CMRowsOf(headers) : \A c \in DOMAIN headers : headers[c] = "d" => r[c] = <<"a">>}

\* The source always has column d; the target has it or lacks it.
InitPar ==
    /\ entry = "parallel_content_match"
    /\ pc = "parsed"
    /\ source_headers = <<"p", "q", "c", "d">>
    /\ target_headers \in ParHeaders
    /\ source_rows \in SeqsUpTo(ParRowsOf(source_headers), MaxSourceRows)
    /\ target_rows \in SeqsUpTo(ParRowsOf(target_headers), MaxTargetRows)
    /\ key_columns = <<>>
    /\ excluded_columns = {}
    /\ case_sensitive \in BOOLEAN
    /\ ignore_whitespace = FALSE
    /\ ignore_empty_vs_null = FALSE
    /\ source_map = EmptyMap
    /\ target_map = EmptyMap
    /\ result = EmptyResult
    /\ error = NoError
    /\ chunk = NoChunk
    /\ CMIdle
    /\ MemIdle
    /\ TasksIdle
    /\ ScanIdle
    /\ CodecIdle
    /\ ParseIdle

\* Up to "Fuzzy matching in parallel...": the two lookups and the sequential
\* exact pass.  inverted_index holds target_value_lookup, and matches the
\* exact pairs followed by the source rows left for the fuzzy pass.
ParallelExactMatch ==
    /\ entry = "parallel_content_match"
    /\ pc = "parsed"
    /\ LET th == aligned_target_headers(source_headers, target_headers)
           st == exact_pass(1,
                    [unchanged |-> <<>>,
                     unmatched |-> 1..Len(target_rows),
                     lookup |-> build_fingerprint_lookup(target_rows, source_headers,
                                    HeaderMap(th), case_sensitive, ignore_whitespace,
                                    ignore_empty_vs_null, excluded_columns),
                     unmatched_source_indices |-> <<>>,
                     pairs |-> <<>>],
                    source_rows, source_headers, case_sensitive, ignore_whitespace,
                    ignore_empty_vs_null, excluded_columns) IN
        /\ result' = [result EXCEPT !.unchanged = st.unchanged]
        /\ unmatched_target_indices' = st.unmatched
        /\ target_fingerprint_lookup' = st.lookup
        /\ inverted_index' = build_value_lookup(target_rows, th, excluded_columns)
        /\ matches' = st.pairs \o
                      [k \in DOMAIN st.unmatched_source_indices |->
                        [source_idx |-> st.unmatched_source_indices[k], target_idx |-> 0,
                         score |-> Score(0, 1), phase |-> "unmatched", accepted |-> FALSE]]
    /\ pc' = "exact_done"
    /\ UNCHANGED <<scanvars, taskvars, codecvars, parsevars, row_counter, memvars, inputs, pkvars, error>>

\* The parallel fuzzy pass, the conflict resolution and the Removed and
\* Added buckets.  `orders` are the iteration orders of the candidate sets,
\* `added_order` the one of the unmatched targets.
ParallelFuzzyMatch ==
    /\ entry = "parallel_content_match"
    /\ pc = "exact_done"
    /\ LET th == aligned_target_headers(source_headers, target_headers)
           exact == SelectSeq(matches, LAMBDA m : m.phase = "exact")
           left == SelectSeq(matches, LAMBDA m : m.phase = "unmatched")
           unmatched_source_indices == [k \in DOMAIN left |-> left[k].source_idx] IN
       \E orders \in [DOMAIN unmatched_source_indices ->
                            Orderings(unmatched_target_indices)] :
        LET sorted_matches ==
                sort_by_score(
                    potential_matches(1, unmatched_source_indices, orders, inverted_index,
                                      unmatched_target_indices, source_rows, target_rows,
                                      source_headers, th, excluded_columns, case_sensitive,
                                      ignore_whitespace, ignore_empty_vs_null))
            st == resolve_conflicts(sorted_matches, 1,
                    [matched_source_indices |-> {},
                     used_target_indices_in_fuzzy |-> {},
                     unmatched |-> unmatched_target_indices,
                     modified |-> <<>>,
                     pairs |-> exact],
                    source_rows, target_rows, source_headers, th, excluded_columns,
                    case_sensitive, ignore_whitespace, ignore_empty_vs_null)
            gone == SelectSeq(unmatched_source_indices,
                              LAMBDA i : i \notin st.matched_source_indices) IN
        \E added_order \in Orderings(st.unmatched) :
            /\ result' = [result EXCEPT
                    !.modified = st.modified,
                    !.removed = [k \in DOMAIN gone |->
                                    [key |-> <<"Row", gone[k]>>,
                                     source_row |-> record_to_hashmap(source_rows[gone[k]],
                                                                      source_headers)]],
                    !.added = [k \in DOMAIN added_order |->
                                    [key |-> <<"Row", added_order[k]>>,
                                     target_row |-> record_to_hashmap(
                                                        target_rows[added_order[k]], th)]],
                    !.mode = "content_match"]
            /\ unmatched_target_indices' = st.unmatched
            /\ matches' = st.pairs
    /\ pc' = "done"
    /\ UNCHANGED <<scanvars, taskvars, codecvars, parsevars, target_fingerprint_lookup, inverted_index, row_counter, memvars, inputs, pkvars, error>>

NextPar ==
    \/ ParallelExactMatch
    \/ ParallelFuzzyMatch

SpecPar == InitPar /\ [][NextPar]_vars


ParallelContentMatchDone == entry = "parallel_content_match" /\ pc = "done"

\* The candidates in the order the conflict resolution took them, and the
\* accepted matches of both passes.
FuzzyCandidates == SelectSeq(matches, LAMBDA m : m.phase = "fuzzy")
AcceptedMatches == SelectSeq(matches, LAMBDA m : m.accepted)

RowNumbers(bucket) == {r.key[2] : r \in Range(bucket)}

\* A candidate that lost its target to a candidate with a higher score.
LostTo(m, a) ==
    /\ ~m.accepted
    /\ a.accepted
    /\ a.target_idx = m.target_idx
    /\ ScoreGreater(a.score, m.score)

\* C20: in the finished parallel content match the candidates were taken in
\* descending score order; no target row and no source row is in more than
\* one accepted match, exact or fuzzy; the Unchanged and Modified rows are the
\* accepted matches; a source row whose best target went to a source row with
\* a higher score is Removed; and the Added rows are exactly the target rows
\* no accepted match uses.
C20_ConflictResolution ==
    ParallelContentMatchDone =>
        /\ \A i, j \in DOMAIN FuzzyCandidates :
                i < j => ~ScoreGreater(FuzzyCandidates[j].score, FuzzyCandidates[i].score)
        /\ \A i, j \in DOMAIN AcceptedMatches :
                i # j => /\ AcceptedMatches[i].target_idx # AcceptedMatches[j].target_idx
                         /\ AcceptedMatches[i].source_idx # AcceptedMatches[j].source_idx
        /\ RowNumbers(result.unchanged) =
                {m.source_idx : m \in {a \in Range(AcceptedMatches) : a.phase = "exact"}}
        /\ RowNumbers(result.modified) =
                {m.source_idx : m \in {a \in Range(AcceptedMatches) : a.phase = "fuzzy"}}
        /\ Len(result.unchanged) + Len(result.modified) = Len(AcceptedMatches)
        /\ \A m \in Range(FuzzyCandidates) :
                (\E a \in Range(AcceptedMatches) : LostTo(m, a)) =>
                    /\ m.source_idx \in RowNumbers(result.removed)
                    /\ m.source_idx \notin RowNumbers(result.modified)
                                            \cup RowNumbers(result.unchanged)
        /\ RowNumbers(result.added) =
                (1..Len(target_rows)) \ {a.target_idx : a \in Range(AcceptedMatches)}
        /\ Len(result.added) = Cardinality(RowNumbers(result.added))
        /\ RowNumbers(result.removed) =
                (1..Len(source_rows)) \ {a.source_idx : a \in Range(AcceptedMatches)}

\* The second source row took the target the first one also matched best,
\* with the higher score; the first is Removed and the other target Added.
C20_Witness ==
    /\ ParallelContentMatchDone
    /\ \E m, a \in Range(FuzzyCandidates) :
            /\ LostTo(m, a)
            /\ m.source_idx < a.source_idx
            /\ m.source_idx \in RowNumbers(result.removed)
    /\ result.added # <<>>
    /\ result.modified # <<>>


-----------------------------------------------------------------------------
(* The parallel sections of diff_csv_parallel_internal, task by task.      *)

Pending == [state |-> "pending"]
Done(out) == [state |-> "done", out |-> out]

\* Variant of the indexed collect that files an output in the first free
\* slot, that is in completion order.
store_in_completion_order(slots, i, out) ==
    LET free == {j \in DOMAIN slots : slots[j] = Pending} IN
    [slots EXCEPT ![CHOOSE j \in free : \A n \in free : j <= n] = Done(out)]

\* par_iter().map(..).collect(): the output of the task for item i becomes
\* element i of the collected Vec.
store(slots, i, out) == [slots EXCEPT ![i] = Done(out)]

\* One task of parallel_find_removed (the filter_map closure).
find_removed_task(key, smap, tmap, srows, sh) ==
    IF key \notin DOMAIN tmap
    THEN [some |-> TRUE,
          row |-> [key |-> key, source_row |-> record_to_hashmap(srows[smap[key]], sh)]]
    ELSE [some |-> FALSE]

\* filter_map(..).collect(): the Some outputs in item order.
collect_removed(slots) ==
    LET kept == SelectSeq(slots, LAMBDA s : s.out.some) IN
    [k \in DOMAIN kept |-> kept[k].out.row]

\* "Separate results into their respective vectors".
separate_results(slots) ==
    LET results == [i \in DOMAIN slots |-> slots[i].out] IN
    [added |-> Bucket(results, "added"),
     modified |-> Bucket(results, "modified"),
     unchanged |-> Bucket(results, "unchanged")]

InitTasks ==
    /\ PKInputs({"parallel"}, ChunkConfigs)
    /\ pc = "parsed"
    /\ source_map = EmptyMap
    /\ target_map = EmptyMap
    /\ result = EmptyResult
    /\ error = NoError
    /\ chunk = NoChunk
    /\ CMIdle
    /\ MemIdle
    /\ TasksIdle
    /\ ScanIdle
    /\ CodecIdle
    /\ ParseIdle

\* parallel_find_removed: source_map.iter().collect() and one task per key.
SpawnRemovedScan ==
    /\ entry = "parallel"
    /\ pc = "parallel_mapped"
    /\ \E sorder \in Orderings(DOMAIN source_map) :
        tasks' = [NoTasks EXCEPT !.source_keys = sorder,
                                 !.removed = [j \in DOMAIN sorder |-> Pending]]
    /\ pc' = "finding_removed"
    /\ UNCHANGED <<scanvars, codecvars, parsevars, cmvars, memvars, inputs, pkvars, result, error>>

RemovedTask ==
    /\ entry = "parallel"
    /\ pc = "finding_removed"
    /\ \E j \in DOMAIN tasks.removed :
        /\ tasks.removed[j] = Pending
        /\ tasks' = [tasks EXCEPT
                !.removed = store(@, j, find_removed_task(tasks.source_keys[j], source_map,
                                        target_map, source_rows, source_headers)),
                !.schedule = Append(@, <<"removed", j>>)]
    /\ UNCHANGED <<scanvars, codecvars, parsevars, cmvars, memvars, inputs, pkvars, pc, result, error>>

\* The scan returns its Vec; parallel_compare_rows collects target_map.iter()
\* and starts one task per key.
SpawnCompare ==
    /\ entry = "parallel"
    /\ pc = "finding_removed"
    /\ \A j \in DOMAIN tasks.removed : tasks.removed[j] # Pending
    /\ result' = [result EXCEPT !.removed = collect_removed(tasks.removed)]
    /\ \E torder \in Orderings(DOMAIN target_map) :
        tasks' = [tasks EXCEPT !.target_keys = torder,
                               !.results = [i \in DOMAIN torder |-> Pending]]
    /\ pc' = "comparing"
    /\ UNCHANGED <<scanvars, codecvars, parsevars, cmvars, memvars, inputs, pkvars, error>>

CompareTask ==
    /\ entry = "parallel"
    /\ pc = "comparing"
    /\ \E i \in DOMAIN tasks.results :
        /\ tasks.results[i] = Pending
        /\ tasks' = [tasks EXCEPT
                !.results = store(@, i,
                    parallel_compare_row(tasks.target_keys[i], source_map, target_map,
                        source_rows, target_rows, source_headers, target_headers,
                        HeaderMap(source_headers), HeaderMap(target_headers),
                        excluded_columns, case_sensitive, ignore_whitespace,
                        ignore_empty_vs_null)),
                !.schedule = Append(@, <<"compare", i>>)]
    /\ UNCHANGED <<scanvars, codecvars, parsevars, cmvars, memvars, inputs, pkvars, pc, result, error>>

\* The merge: the collected outputs are separated into the three buckets
\* and the DiffResult is built.
MergeResults ==
    /\ entry = "parallel"
    /\ pc = "comparing"
    /\ \A i \in DOMAIN tasks.results : tasks.results[i] # Pending
    /\ LET amu == separate_results(tasks.results) IN
        result' = [added |-> amu.added, removed |-> result.removed,
                   modified |-> amu.modified, unchanged |-> amu.unchanged,
                   mode |-> "primary_key"]
    /\ pc' = "done"
    /\ UNCHANGED <<scanvars, taskvars, codecvars, parsevars, cmvars, memvars, inputs, pkvars, error>>

NextTasks ==
    \/ ParallelBuildMaps
    \/ SpawnRemovedScan
    \/ RemovedTask
    \/ SpawnCompare
    \/ CompareTask
    \/ MergeResults

SpecTasks == InitTasks /\ [][NextTasks]_vars

\* The keys of a bucket.
KeysIn(bucket) == {r.key : r \in Range(bucket)}

\* What a parallel section may change: one pending slot of its own, which
\* becomes done, and the schedule; every other slot, the datasets, the
\* options, both key maps and the result stay as they are.
OneSlotWritten(before, after) ==
    /\ DOMAIN after = DOMAIN before
    /\ \E i \in DOMAIN before :
        /\ before[i] = Pending
        /\ after[i] # Pending
        /\ \A n \in DOMAIN before : n # i => after[n] = before[n]

TaskStep ==
    /\ entry = "parallel"
    /\ pc \in {"finding_removed", "comparing"}
    /\ pc' = pc

TaskFrame ==
    TaskStep =>
        /\ UNCHANGED <<inputs, pkvars, result, error>>
        /\ tasks'.source_keys = tasks.source_keys
        /\ tasks'.target_keys = tasks.target_keys
        /\ IF pc = "finding_removed"
           THEN /\ OneSlotWritten(tasks.removed, tasks'.removed)
                /\ tasks'.results = tasks.results
           ELSE /\ OneSlotWritten(tasks.results, tasks'.results)
                /\ tasks'.removed = tasks.removed

\* The output of every finished task is the one its key and the inputs
\* determine, whatever ran before it.
OutputsAreFunctionsOfInputs ==
    /\ \A j \in DOMAIN tasks.removed :
            tasks.removed[j] # Pending =>
                tasks.removed[j] = Done(find_removed_task(tasks.source_keys[j], source_map,
                                            target_map, source_rows, source_headers))
    /\ \A i \in DOMAIN tasks.results :
            tasks.results[i] # Pending =>
                tasks.results[i] = Done(parallel_compare_row(tasks.target_keys[i],
                        source_map, target_map, source_rows, target_rows, source_headers,
                        target_headers, HeaderMap(source_headers),
                        HeaderMap(target_headers), excluded_columns, case_sensitive,
                        ignore_whitespace, ignore_empty_vs_null))

\* The merged result is the one the two sections give when their tasks run
\* in item order, and it partitions the keys.
MergedAsInItemOrder ==
    (entry = "parallel" /\ pc = "done" /\ tasks.schedule # <<>>) =>
        LET amu == parallel_compare_rows(source_map, target_map, tasks.target_keys,
                        source_rows, target_rows, source_headers, target_headers,
                        excluded_columns, case_sensitive, ignore_whitespace,
                        ignore_empty_vs_null) IN
        /\ result.removed = parallel_find_removed(source_map, target_map, tasks.source_keys,
                                                  source_rows, source_headers)
        /\ result.added = amu.added
        /\ result.modified = amu.modified
        /\ result.unchanged = amu.unchanged
        /\ KeysIn(result.added) \cup KeysIn(result.modified) \cup KeysIn(result.unchanged)
                = DOMAIN target_map
        /\ Len(result.added) + Len(result.modified) + Len(result.unchanged)
                = Cardinality(DOMAIN target_map)
        /\ KeysIn(result.removed) = DOMAIN source_map \ DOMAIN target_map
        /\ Len(result.removed) = Cardinality(KeysIn(result.removed))

\* C21: in the parallel primary-key comparison every task writes its own
\* output slot and nothing else, reads only the datasets, options and key
\* maps, which no task writes, and gives the output its key determines; the
\* merged result is the same for every order in which the tasks run: each
\* target key in exactly one of Added, Modified, Unchanged and each source
\* key absent from the target in Removed.
C21_ScheduleIndependent ==
    /\ [](OutputsAreFunctionsOfInputs /\ MergedAsInItemOrder)
    /\ [][TaskFrame]_vars

\* A finished run in which the later task of each section ran first, with
\* a Removed row and two compared rows in different buckets.
C21_Witness ==
    /\ entry = "parallel"
    /\ pc = "done"
    /\ \E a, b \in DOMAIN tasks.schedule :
            /\ a < b
            /\ tasks.schedule[a][1] = "compare"
            /\ tasks.schedule[b][1] = "compare"
            /\ tasks.schedule[a][2] > tasks.schedule[b][2]
    /\ \E a, b \in DOMAIN tasks.schedule :
            /\ a < b
            /\ tasks.schedule[a][1] = "removed"
            /\ tasks.schedule[b][1] = "removed"
            /\ tasks.schedule[a][2] > tasks.schedule[b][2]
    /\ result.removed # <<>>
    /\ result.modified # <<>>
    /\ Len(result.added) + Len(result.unchanged) > 0


-----------------------------------------------------------------------------
(* The choice among equally good candidates.                               *)

\* The similarity the scoring loop gives candidate t of source row i.
CandidateScore(i, t) ==
    calculate_row_similarity(source_rows[i], target_rows[t], source_headers,
        HeaderMap(source_headers),
        HeaderMap(aligned_target_headers(source_headers, target_headers)),
        excluded_columns)

\* C22: when several shortlisted candidates of a source row share the best
\* similarity, the row is matched with the one that comes last in the
\* shortlist.
C22_LaterWinsTies ==
    entry = "content_match" =>
        \A i \in DOMAIN matches :
            matches[i].bucket = "modified" =>
                \A k, n \in DOMAIN matches[i].candidates :
                    (/\ matches[i].candidates[k] \in TakenBy(i)
                     /\ CandidateScore(i, matches[i].candidates[n]) = BestScore(i))
                        => n <= k


-----------------------------------------------------------------------------
(* Content match between rows with blank cells.                            *)

\* Column p is always blank, column q blank or not, column c never blank.
BlankValues(h) == IF h = "p" THEN {<<>>}
                  ELSE IF h = "q" THEN {<<>>, <<"a">>}
                  ELSE {<<"a">>, <<"b">>}

BlankRows ==
    {r \in [1..3 -> {<<>>, <<"a">>, <<"b">>}] :
        \A c \in 1..3 : r[c] \in BlankValues(<<"p", "q", "c">>[c])}

InitCMBlank ==
    /\ entry = "content_match"
    /\ pc = "parsed"
    /\ source_headers = <<"p", "q", "c">>
    /\ target_headers = source_headers
    /\ source_rows \in SeqsUpTo(BlankRows, MaxSourceRows)
    /\ target_rows \in SeqsUpTo(BlankRows, MaxTargetRows)
    /\ key_columns = <<>>
    /\ excluded_columns = {}
    /\ case_sensitive = TRUE
    /\ ignore_whitespace \in BOOLEAN
    /\ ignore_empty_vs_null = FALSE
    /\ source_map = EmptyMap
    /\ target_map = EmptyMap
    /\ result = EmptyResult
    /\ error = NoError
    /\ chunk = NoChunk
    /\ CMIdle
    /\ MemIdle
    /\ TasksIdle
    /\ ScanIdle
    /\ CodecIdle
    /\ ParseIdle

SpecCMBlank == InitCMBlank /\ [][NextCM]_vars

\* Source row i and target row t hold the same normalized value in a column
\* that is not excluded and whose source cell is not blank.
SharesFilledColumn(i, t) ==
    \E c \in DOMAIN source_headers :
        /\ source_headers[c] \notin excluded_columns
        /\ trim(Cell(source_rows[i], c)) # <<>>
        /\ normalize_value(Cell(source_rows[i], c), case_sensitive, ignore_whitespace)
            = normalize_value(Cell(target_rows[t], c), case_sensitive, ignore_whitespace)

\* C23: every candidate gathered for a source row in the fuzzy pass shares
\* with it a column that is not excluded and whose source cell is non-empty
\* after trimming; blank source cells bring in no candidate.
C23_BlankCellsGatherNothing ==
    entry = "content_match" =>
        \A i \in DOMAIN matches :
            ~matches[i].exact =>
                \A t \in Range(matches[i].candidates) : SharesFilledColumn(i, t)


-----------------------------------------------------------------------------
(* The work budget of the fuzzy pass, one bucket at a time.                *)

\* Variant of the budget update that never spends anything.
keep_budget(a, b) == a

\* budget.saturating_sub(*count)
spend(a, b) == saturating_sub(a, b)

\* One iteration of `for (count, col_idx, val) in &row_tokens`: whether the
\* loop goes on, whether the bucket was scanned, and the budget and the
\* candidate scores after it.
scan_bucket(tokens, k, budget, candidate_scores, index, unmatched) ==
    LET count == tokens[k].count
        passed == [go_on |-> TRUE, scanned |-> FALSE, budget |-> budget,
                   candidate_scores |-> candidate_scores]
        broke == [passed EXCEPT !.go_on = FALSE] IN
    IF count = 0 THEN passed
    ELSE IF budget = 0 THEN broke
    ELSE IF count > budget /\ candidate_scores # EmptyMap THEN broke
    ELSE IF count > MAX_BUCKET THEN broke
    ELSE LET hit == {t \in Range(index[<<tokens[k].col_idx, tokens[k].val>>]) :
                        t \in unmatched} IN
         [go_on |-> TRUE, scanned |-> TRUE,
          budget |-> spend(budget, count),
          candidate_scores |->
                [t \in DOMAIN candidate_scores \cup hit |->
                    (IF t \in DOMAIN candidate_scores THEN candidate_scores[t] ELSE 0)
                    + (IF t \in hit THEN 1 ELSE 0)]]

\* The sizes a bucket of the inverted index is given.
BucketSizes == {1, 1000, 2000, 10000, 10001}

\* The source row whose candidates are gathered, and its columns.
ScanHeaders == <<"p", "q", "c">>
ScanRow == <<<<"a">>, <<"a">>, <<"a">>>>

\* The inverted index after the targets were indexed: in every column the
\* first rows hold the value of the source row.
InitScan ==
    /\ entry = "gather_candidates"
    /\ pc = "indexed"
    /\ source_headers = ScanHeaders
    /\ target_headers = ScanHeaders
    /\ source_rows = <<ScanRow>>
    /\ target_rows = <<>>
    /\ key_columns = <<>>
    /\ excluded_columns = {}
    /\ case_sensitive = TRUE
    /\ ignore_whitespace = FALSE
    /\ ignore_empty_vs_null = FALSE
    /\ source_map = EmptyMap
    /\ target_map = EmptyMap
    /\ result = EmptyResult
    /\ error = NoError
    /\ chunk = NoChunk
    /\ \E sizes \in [DOMAIN ScanHeaders -> BucketSizes] :
        inverted_index = [t \in {<<c, <<"a">>>> : c \in DOMAIN ScanHeaders} |->
                            Indices(sizes[t[1]])]
    /\ \E some \in BOOLEAN :
        unmatched_target_indices = IF some THEN 1..MAX_BUCKET + 1 ELSE {}
    /\ target_fingerprint_lookup = EmptyMap
    /\ row_counter = 1
    /\ matches = <<>>
    /\ MemIdle
    /\ TasksIdle
    /\ ScanIdle
    /\ CodecIdle
    /\ ParseIdle

\* candidate_scores.clear(), the tokens of the row, their sort, and
\* `let mut budget = 2000`.
StartScan ==
    /\ entry = "gather_candidates"
    /\ scan.state = "idle"
    /\ scan' = [state |-> "scanning",
                tokens |-> sort_by_count(
                    row_tokens(source_rows[row_counter], source_headers,
                               HeaderMap(source_headers), inverted_index,
                               case_sensitive, ignore_whitespace, excluded_columns)),
                next |-> 1,
                budget |-> BUDGET,
                candidate_scores |-> EmptyMap,
                scanned |-> <<>>]
    /\ UNCHANGED <<taskvars, codecvars, parsevars, cmvars, memvars, inputs, pkvars, pc, result, error>>

\* One iteration of the loop over the sorted tokens.  `scanned` lists, for
\* every bucket scanned, its place among the tokens, its size and the total
\* size of the buckets scanned before it.
ScanBucket ==
    /\ entry = "gather_candidates"
    /\ scan.state = "scanning"
    /\ scan.next <= Len(scan.tokens)
    /\ LET out == scan_bucket(scan.tokens, scan.next, scan.budget,
                              scan.candidate_scores, inverted_index,
                              unmatched_target_indices)
           before == SeqSum([n \in DOMAIN scan.scanned |-> scan.scanned[n].count]) IN
        scan' = [scan EXCEPT
                    !.state = IF out.go_on THEN "scanning" ELSE "stopped",
                    !.next = IF out.go_on THEN scan.next + 1 ELSE scan.next,
                    !.budget = out.budget,
                    !.candidate_scores = out.candidate_scores,
                    !.scanned = IF out.scanned
                                THEN Append(@, [place |-> scan.next,
                                                count |-> scan.tokens[scan.next].count,
                                                before |-> before])
                                ELSE @]
    /\ UNCHANGED <<taskvars, codecvars, parsevars, cmvars, memvars, inputs, pkvars, pc, result, error>>

\* The loop runs out of tokens.
EndScan ==
    /\ entry = "gather_candidates"
    /\ scan.state = "scanning"
    /\ scan.next > Len(scan.tokens)
    /\ scan' = [scan EXCEPT !.state = "stopped"]
    /\ UNCHANGED <<taskvars, codecvars, parsevars, cmvars, memvars, inputs, pkvars, pc, result, error>>

NextScan ==
    \/ StartScan
    \/ ScanBucket
    \/ EndScan

SpecScan == InitScan /\ [][NextScan]_vars

\* C24: the buckets of a source row are visited in non-decreasing size
\* order; a bucket is scanned only if it holds at most 10000 entries and the
\* buckets scanned before it for that row hold fewer than 2000 entries in
\* total, so nothing is scanned once the ceiling is reached.  The walk ends
\* with the candidate scores the fuzzy pass works with.
C24_WorkBudget ==
    entry = "gather_candidates" =>
        /\ \A j, k \in DOMAIN scan.tokens :
                j < k => scan.tokens[j].count <= scan.tokens[k].count
        /\ \A n \in DOMAIN scan.scanned :
            /\ scan.scanned[n].count <= MAX_BUCKET
            /\ scan.scanned[n].before < BUDGET
            /\ n > 1 => /\ scan.scanned[n - 1].place < scan.scanned[n].place
                        /\ scan.scanned[n - 1].count <= scan.scanned[n].count
        /\ scan.state = "stopped" =>
                scan.candidate_scores =
                    gather_candidates(scan.tokens, 1, BUDGET, EmptyMap,
                                      inverted_index, unmatched_target_indices)

\* Two buckets were scanned, they reach the ceiling, and a bucket of the row
\* is left unscanned.
C24_Witness ==
    /\ entry = "gather_candidates"
    /\ scan.state = "stopped"
    /\ Len(scan.scanned) = 2
    /\ scan.scanned[1].count + scan.scanned[2].count >= BUDGET
    /\ scan.next <= Len(scan.tokens)
    /\ scan.candidate_scores # EmptyMap


-----------------------------------------------------------------------------
(* Composite keys whose values hold the separator.                         *)

\* A key value is empty or the separator character itself.
SeparatorValues == {<<>>, <<"|">>}

InitPKSeparator ==
    /\ entry \in EntryPoints
    /\ source_headers = <<"id", "v">>
    /\ target_headers = <<"id", "v">>
    /\ key_columns = <<"id", "v">>
    /\ source_rows \in SeqsUpTo([1..2 -> SeparatorValues], MaxSourceRows)
    /\ target_rows \in SeqsUpTo([1..2 -> SeparatorValues], MaxTargetRows)
    /\ excluded_columns = {}
    /\ case_sensitive = TRUE
    /\ ignore_whitespace = FALSE
    /\ ignore_empty_vs_null = FALSE
    /\ pc = "parsed"
    /\ source_map = EmptyMap
    /\ target_map = EmptyMap
    /\ result = EmptyResult
    /\ error = NoError
    /\ chunk = NoChunk
    /\ CMIdle
    /\ MemIdle
    /\ TasksIdle
    /\ ScanIdle
    /\ CodecIdle
    /\ ParseIdle

SpecPKSeparator == InitPKSeparator /\ [][NextPK]_vars

\* The values a row holds in the key columns, column by column.
KeyTuple(row, headers) ==
    [k \in DOMAIN key_columns |->
        IF key_columns[k] \in DOMAIN HeaderMap(headers)
        THEN Cell(row, HeaderMap(headers)[key_columns[k]])
        ELSE <<>>]

SharesKeyTuple(rows, headers) ==
    \E i, j \in DOMAIN rows :
        i # j /\ KeyTuple(rows[i], headers) = KeyTuple(rows[j], headers)

\* C25: a duplicate-primary-key error is raised for a dataset only when two
\* of its rows agree on every key column; rows that differ in a key column
\* get distinct Row Keys, also when the values hold the separator.
C25_DuplicateOnlyForEqualKeyColumns ==
    error.kind = "duplicate_primary_key" =>
        IF error.side = "source"
        THEN SharesKeyTuple(source_rows, source_headers)
        ELSE SharesKeyTuple(target_rows, target_headers)


\* C26: for every input and has_headers flag the streaming parser returns
\* what parse_csv_internal returns: the same headers and the same data rows in
\* the same order, no record dropped or read twice.
C26_StreamingReadsEveryRecordOnce ==
    (entry = "parse" /\ pc = "done" /\ parsed.by = "parse_csv_streaming") =>
        parsed = [by |-> "parse_csv_streaming"]
                 @@ parse_csv_internal(csv_content, has_headers)


-----------------------------------------------------------------------------
(* A content-match session against the one-shot diff, case-insensitive.    *)

InitCMChunkIgnoreCase ==
    /\ entry = "content_session"
    /\ pc = "parsed"
    /\ source_headers = <<"p", "q", "c">>
    /\ target_headers = source_headers
    /\ source_rows \in SeqsUpTo(SessionRows, MaxSourceRows)
    /\ target_rows \in SeqsUpTo(SessionRows, MaxTargetRows)
    /\ key_columns = <<>>
    /\ excluded_columns = {}
    /\ case_sensitive = FALSE
    /\ ignore_whitespace = FALSE
    /\ ignore_empty_vs_null = FALSE
    /\ source_map = EmptyMap
    /\ target_map = EmptyMap
    /\ result = EmptyResult
    /\ error = NoError
    /\ chunk = NoContentChunk
    /\ CMIdle
    /\ MemIdle
    /\ TasksIdle
    /\ ScanIdle
    /\ CodecIdle
    /\ ParseIdle

SpecCMChunkIgnoreCase == InitCMChunkIgnoreCase /\ [][NextCMChunk]_vars

\* diff_csv_internal on the datasets and options of the session: the source
\* rows from row i on, then the targets left over as Added.  orders[i] is the
\* iteration order of candidate_scores for row i.
RECURSIVE diff_csv_internal_from(_, _, _, _, _, _, _)
diff_csv_internal_from(i, orders, res, unmatched, lookup, index, th) ==
    IF i > Len(source_rows)
    THEN [res EXCEPT
            !.added = [k \in 1..Cardinality(unmatched) |->
                        [key |-> <<"Added", k>>,
                         target_row |->
                            record_to_hashmap(target_rows[SortedSeq(unmatched)[k]], th)]],
            !.mode = "content-match"]
    ELSE LET order_of == [S \in SUBSET unmatched |->
                            SelectSeq(orders[i], LAMBDA t : t \in S)]
             out == match_source_row(i, order_of, res, unmatched, lookup, index,
                        source_rows, target_rows, source_headers, th,
                        case_sensitive, ignore_whitespace, ignore_empty_vs_null,
                        excluded_columns) IN
         diff_csv_internal_from(i + 1, orders, out.result, out.unmatched, out.lookup,
                                index, th)

diff_csv_internal(orders) ==
    LET th == aligned_target_headers(source_headers, target_headers) IN
    diff_csv_internal_from(1, orders, EmptyResult, 1..Len(target_rows),
        build_fingerprint_lookup(target_rows, source_headers, HeaderMap(th),
                                 case_sensitive, ignore_whitespace,
                                 ignore_empty_vs_null, excluded_columns),
        build_inverted_index(target_rows, source_headers, HeaderMap(th),
                             case_sensitive, ignore_whitespace, excluded_columns),
        th)

\* The session has answered one diff_chunk call, and it covered every source
\* row.
SingleChunkDone ==
    /\ entry = "content_session"
    /\ chunk.calls = 1
    /\ chunk.outcome = "ok"
    /\ ~chunk.early
    /\ chunk.rows = DOMAIN source_rows

\* C27: a content-match session processed by one diff_chunk call over all
\* source rows returns the numbers of Added, Removed, Modified and Unchanged
\* rows that diff_csv_internal returns on the same inputs and options.
C27_SingleChunkCountsAsOneShot ==
    SingleChunkDone =>
        \E orders \in [DOMAIN source_rows -> Orderings(1..Len(target_rows))] :
            Counts(result) = Counts(diff_csv_internal(orders))


-----------------------------------------------------------------------------
(* The exact pass of the content-match diff among fuzzy matches.           *)

\* The target rows no earlier source row had consumed when row i was
\* processed.
StillUnmatchedAt(i) ==
    (1..Len(target_rows)) \ UNION {TakenBy(j) : j \in 1..(i - 1)}

SourcesLike(i) ==
    {j \in DOMAIN source_rows :
        get_row_fingerprint(source_rows[j], source_headers, HeaderMap(source_headers),
                            case_sensitive, ignore_whitespace, ignore_empty_vs_null,
                            excluded_columns)
        = get_row_fingerprint(source_rows[i], source_headers, HeaderMap(source_headers),
                              case_sensitive, ignore_whitespace, ignore_empty_vs_null,
                              excluded_columns)}

TargetsLike(i) == {t \in DOMAIN target_rows : SameFingerprint(i, t)}

UnchangedLike(i) == {j \in SourcesLike(i) : matches[j].exact}

Min(a, b) == IF a < b THEN a ELSE b

-----------------------------------------------------------------------------
(* The frame of diff_chunk in primary-key mode.                            *)

\* The classification diff_chunk(start, size) yields on the session as it
\* stands, with the removed rows in one fixed order.
ChunkClassification(start, size) ==
    diff_primary_key_chunk(start, size,
        CHOOSE o \in Orderings(DOMAIN source_map) : TRUE,
        source_map, target_map, source_rows, target_rows,
        source_headers, target_headers, key_columns, excluded_columns,
        case_sensitive, ignore_whitespace, ignore_empty_vs_null)

\* The same rows in the same buckets; the removed rows in any order.
SameClassification(a, b) ==
    /\ a.added = b.added
    /\ a.modified = b.modified
    /\ a.unchanged = b.unchanged
    /\ Len(a.removed) = Len(b.removed)
    /\ Range(a.removed) = Range(b.removed)

PrimaryKeyChunkStep ==
    /\ entry = "session"
    /\ pc = "session"
    /\ pc' = "session"

\* C29: in primary-key mode a diff_chunk call changes nothing of the session
\* (datasets, headers, both key maps, options), and what it returns is the
\* classification its start and size yield on that session, whichever calls
\* came before it and however often it is repeated.
C29_ChunkLeavesSessionUnchanged ==
    /\ []((entry = "session" /\ pc = "session" /\ chunk.calls >= 1) =>
            SameClassification(result, ChunkClassification(chunk.start, chunk.size)))
    /\ [][PrimaryKeyChunkStep => UNCHANGED <<inputs, source_map, target_map, error>>]_vars

\* A call repeated with the arguments of the call before it, reaching the end
\* of the target rows and returning rows in every bucket but one.
C29_Witness ==
    /\ entry = "session"
    /\ pc = "session"
    /\ chunk.calls = 2
    /\ chunk.repeated
    /\ chunk.size > 0
    /\ result.removed # <<>>
    /\ result.modified # <<>>
    /\ result.added # <<>>


-----------------------------------------------------------------------------
(* The range arguments of diff_chunk.                                      *)

\* C30: diff_chunk returns a result for every chunk_start and chunk_size, a
\* start past the rows of the sliced side included, without failing on
\* chunk_end - chunk_start, and pairs no source row outside the requested
\* range.
C30_DiffChunkTotal ==
    (entry = "content_session" /\ chunk.calls >= 1) =>
        /\ chunk.outcome = "ok"
        /\ Range(PairedSources) \subseteq chunk.rows

====
